---------------------------- MODULE Spec2Model ----------------------------
(***************************************************************************)
(* The trade-copier relay of FahadScalp/Claud: a master pushes             *)
(* OPEN/MODIFY/CLOSE events, slaves poll for them and acknowledge them.    *)
(*                                                                         *)
(* The repository holds four variants of the server, each a program of     *)
(* its own with its own module-level state:                                *)
(*   "disk" src/unnamed/part_001 lines 1-511   (copier/slaves JSON files,   *)
(*          per-event ack map, ack-triggered cleanup)                      *)
(*   "mem"  src/server.js                      (groupEvents, seenEventKey,  *)
(*          slaveLastAck, size/age cleanup)                                *)
(*   "uid"  src/unnamed/part_000               (copierUidState ticket state *)
(*          machine, copierLastAckBySlave)                                 *)
(*   "mvp"  src/unnamed/part_001 lines 513-588 (nextEventId, events: the    *)
(*          second server.js pasted at the end of that file)               *)
(* The variable server says which of them is the running process; it is    *)
(* chosen in Init and never changes.  Every HTTP handler is one action:    *)
(* Node runs a synchronous handler to completion.  What a handler answers  *)
(* is a function of the state it starts in and of its request; it is an    *)
(* operator beside the action (DiskPushResp beside DiskPush, ...).         *)
(*                                                                         *)
(* Strings that the code concatenates into keys or splits again (group,    *)
(* slaveId, uid) are sequences of one-character strings, so that           *)
(* `${group}|${slaveId}`, startsWith and split("|") are computed as the     *)
(* code computes them.  Strings the code only compares (type, status,      *)
(* symbol) are TLA+ strings.  Time is counted in days.                     *)
(*                                                                         *)
(* A run is driven with the requests of one of a few small worlds (the      *)
(* variable world, chosen in Init): the slaves that register, poll and     *)
(* acknowledge, and the bodies the master pushes.  The variable client is  *)
(* the bookkeeping of the slave and master programs; only the runs of      *)
(* SpecClient and SpecMaster write it.                                     *)
(*                                                                         *)
(* Trade attributes that every handler copies through unread (cmd, lots,   *)
(* price, sl, tp, magic, comment) are represented by symbol alone, and an  *)
(* ack entry {status, err, ts} by its status: err and ts are never read.   *)
(***************************************************************************)
EXTENDS Integers, Sequences, FiniteSets, TLC

VARIABLES
    server,                 \* which server file is the running process
    now,                    \* nowMs(), in days
    copier,                 \* part_001: {nextId, events, lastMasterEquityByGroup}
    slaves,                 \* part_001: slaves.slaves, key -> {lastAckId, lastSeenAt}
    nextEventId,            \* server.js
    groupEvents,            \* server.js: group -> array of events
    seenEventKey,           \* server.js: group|type|uid -> id
    slaveLastAck,           \* server.js: group|slaveId -> lastAckId
    groupSlaves,            \* server.js: group -> Set(slaveId)
    clientsByKey,           \* server.js: apiKey -> subscription
    copierNextEventId,      \* part_000
    copierEvents,           \* part_000
    copierLastAckBySlave,   \* part_000: group|slaveId -> lastAckEventId
    copierUidState,         \* part_000: group|uid -> {open, lastType, ts}
    mvp,                    \* part_001 from line 513: {nextEventId, events}
    files,                  \* part_001: what copier_events.json, slaves.json and
                            \* clients.json hold, and their .tmp files;
                            \* server.js: what clients.json holds
    clients,                \* part_001: clients.clients, apiKey -> subscription
    world,                  \* the slaves and the push bodies of this run
    drawn,                  \* part_001: how many api keys randKeyHex has given
    saving,                 \* part_001: the call of writeJsonSafe the process is
                            \* inside and how far it has come, <<>> between requests
    client                  \* the slave programs: who registered (reg), which events
                            \* were appended while who was registered (owed), which
                            \* events a poll returned to whom (got); the master
                            \* program: its push requests in flight (sent) and the
                            \* ids they were answered with (made)

vars == <<server, now, copier, slaves, nextEventId, groupEvents, seenEventKey,
          slaveLastAck, groupSlaves, clientsByKey, copierNextEventId, copierEvents,
          copierLastAckBySlave, copierUidState, mvp, files, clients, world, drawn,
          saving, client>>

diskVars == <<copier, slaves>>
memVars  == <<nextEventId, groupEvents, seenEventKey, slaveLastAck, groupSlaves,
              clientsByKey>>
uidVars  == <<copierNextEventId, copierEvents, copierLastAckBySlave, copierUidState>>

----------------------------------------------------------------------------
(* Bounds of the model *)

\* POST /admin/clients/extend is made while the subscription then runs out on
\* this day or before it
MaxExpiresDay == 46

\* pushes are accepted while the id counter is at most MaxId
MaxId == 3
\* the clock advances at most MaxTicks times
MaxTicks == 1
\* one clock advance, in days
TickDays == 15

----------------------------------------------------------------------------
(* Strings and maps *)

Sep == "|"
EmptyStr == <<>>
EmptyMap == <<>>

Has(m, k) == k \in DOMAIN m
Put(m, k, v) == (k :> v) @@ m
\* m.get(k) || d  /  m[k] || d
GetOr(m, k, d) == IF Has(m, k) THEN m[k] ELSE d

Max(a, b) == IF a >= b THEN a ELSE b
Min(a, b) == IF a <= b THEN a ELSE b

\* String.prototype.startsWith
StartsWith(s, p) == Len(s) >= Len(p) /\ SubSeq(s, 1, Len(p)) = p

\* the index of the first separator of s, 0 when there is none
SepIndex(s) ==
    IF \E i \in 1..Len(s) : s[i] = Sep
    THEN CHOOSE i \in 1..Len(s) : s[i] = Sep /\ \A j \in 1..(i - 1) : s[j] # Sep
    ELSE 0

\* String.prototype.split("|"): the sequence of pieces
RECURSIVE Split(_)
Split(s) ==
    LET i == SepIndex(s)
    IN  IF i = 0 THEN <<s>>
        ELSE <<SubSeq(s, 1, i - 1)>> \o Split(SubSeq(s, i + 1, Len(s)))

\* the elements of a sequence
Range(q) == {q[i] : i \in 1..Len(q)}

\* the first n elements of a sequence
Take(q, n) == SubSeq(q, 1, Min(n, Len(q)))
\* Array.prototype.slice(-n) : the last n elements
LastN(q, n) == IF Len(q) > n THEN SubSeq(q, Len(q) - n + 1, Len(q)) ELSE q

\* String(x || "G1") and String(x || "S01"), the defaults part_000 and the server
\* of part_001 from line 513 give a missing group and a missing slaveId
GroupOrG1(g) == IF g = EmptyStr THEN <<"G", "1">> ELSE g
SlaveOrS01(sid) == IF sid = EmptyStr THEN <<"S", "0", "1">> ELSE sid

----------------------------------------------------------------------------
(* Requests: the inputs the handlers are driven with *)

G  == <<"G">>
GA == <<"G", "|", "A">>
A  == <<"A">>
B  == <<"B">>
AB == <<"A", "|", "B">>

Groups == {G, GA}
Statuses == {"DONE", "ERR", "SKIP"}

\* a push body for the position with uid U, and one for a position without uid
Body(g, t, q) ==
    [group |-> g, type |-> t, uid |-> <<"U">>, master_ticket |-> 7, open_time |-> 1,
     symbol |-> "EURUSD", cmd |-> 0, master_equity |-> q]
NoUidBody(g, t) ==
    [group |-> g, type |-> t, uid |-> EmptyStr, master_ticket |-> 7, open_time |-> 2,
     symbol |-> "EURUSD", cmd |-> 0, master_equity |-> 0]

\* request bodies with a required field missing
BadBodies ==
    { [Body(G, "", 0) EXCEPT !.type = ""],
      [Body(G, "OPEN", 0) EXCEPT !.symbol = ""] }

\* a registerSlave or a poll that names no slaveId
NoSlaveId == <<G, EmptyStr>>

\* an api key that is in no subscription when the server starts
BadKey == <<EmptyStr, EmptyStr>>

\* the day a subscription an operator adds runs out
ExpiryDay == 10

\* bodies of POST /admin/clients/upsert: the subscription of slave A disabled and
\* moved to slave id B, a new subscription that runs out, a body without slaveId.
\* The api key of the subscription a slave starts with is written as its
\* (group, slaveId) pair; expiresAt is <<>> for "" and <<d>> for the date of day d.
Upserts ==
    { [apiKey |-> <<G, A>>, group |-> G, slaveId |-> A, enabled |-> FALSE,
       expiresAt |-> <<>>],
      [apiKey |-> <<G, A>>, group |-> G, slaveId |-> B, enabled |-> TRUE,
       expiresAt |-> <<>>],
      [apiKey |-> BadKey, group |-> G, slaveId |-> A, enabled |-> TRUE,
       expiresAt |-> <<ExpiryDay>>],
      [apiKey |-> BadKey, group |-> G, slaveId |-> EmptyStr, enabled |-> TRUE,
       expiresAt |-> <<>>] }

\* bodies of POST /admin/clients/extend
Extends == { [apiKey |-> BadKey, months |-> 1] }

\* how saveClients of server.js ends: it returns, fs.writeFileSync throws before
\* it has touched the file, or it throws after it has written a part of the text
SaveEnds == {"saved", "open", "write"}

\* A run has its slaves, the bodies the master pushes, the statuses the slaves
\* acknowledge with, the number of times the clock is seen to advance, and the
\* bodies of the operator's admin requests with the ways saveClients ends.
Worlds ==
    { \* one group, two slaves, the life of one position
      [slaves |-> {<<G, A>>, <<G, B>>},
       bodies |-> {Body(G, "OPEN", 0), Body(G, "MODIFY", 0), Body(G, "CLOSE", 0)},
       statuses |-> {"DONE"}, ticks |-> 0,
       upsert |-> {}, extend |-> {}, saves |-> {}],
      \* a slave id that holds the separator
      [slaves |-> {<<G, A>>, <<G, AB>>},
       bodies |-> {Body(G, "OPEN", 0), Body(G, "CLOSE", 0)},
       statuses |-> {"SKIP"}, ticks |-> MaxTicks,
       upsert |-> {}, extend |-> {}, saves |-> {}],
      \* two groups, one a prefix of the other
      [slaves |-> {<<G, A>>, <<GA, B>>},
       bodies |-> {Body(G, "OPEN", 0), Body(GA, "OPEN", 0), Body(G, "CLOSE", 0)},
       statuses |-> {"DONE"}, ticks |-> 0,
       upsert |-> {}, extend |-> {}, saves |-> {}],
      \* two (group, slaveId) pairs with the same key
      [slaves |-> {<<G, AB>>, <<GA, B>>},
       bodies |-> {Body(G, "OPEN", 0), Body(GA, "OPEN", 0)},
       statuses |-> {"SKIP"}, ticks |-> MaxTicks,
       upsert |-> {}, extend |-> {}, saves |-> {}],
      \* master equity sent and omitted, a position without uid
      [slaves |-> {<<G, A>>},
       bodies |-> {Body(G, "OPEN", 50), Body(G, "CLOSE", 70), NoUidBody(G, "OPEN"),
                   Body(GA, "OPEN", 0)},
       statuses |-> {"DONE", "ERR"}, ticks |-> 0,
       upsert |-> {}, extend |-> {}, saves |-> {}],
      \* one slave, one position that is opened
      [slaves |-> {<<G, A>>},
       bodies |-> {Body(G, "OPEN", 0)},
       statuses |-> {"DONE"}, ticks |-> MaxTicks,
       upsert |-> {}, extend |-> {}, saves |-> {}],
      \* the same with an operator who changes the subscriptions of server.js
      [slaves |-> {<<G, A>>},
       bodies |-> {Body(G, "OPEN", 0)},
       statuses |-> {"DONE"}, ticks |-> MaxTicks,
       upsert |-> Upserts, extend |-> Extends, saves |-> {"saved"}],
      \* the same with an operator who disables a subscription while clients.json
      \* cannot always be written
      [slaves |-> {<<G, A>>},
       bodies |-> {Body(G, "OPEN", 0)},
       statuses |-> {"DONE"}, ticks |-> MaxTicks,
       upsert |-> {u \in Upserts : ~u.enabled}, extend |-> {}, saves |-> SaveEnds] }

\* every slave of some run
Slaves == UNION {w.slaves : w \in Worlds}

\* GET /copier/events: the largest batch, in all three servers
MAX_LIMIT == 500
\* GET /copier/events: the batch when the request names no limit
DEFAULT_LIMIT == 200

\* cursors and batch limits of GET /copier/events
Cursors == 0..MaxId
Limits == {1, 2}
\* event ids of POST /copier/ack: the ids the log can come to hold
AckIds == 1..MaxId

----------------------------------------------------------------------------
(* part_001 (disk): copier + slaves *)

\* saveCopier keeps the last COPIER_KEEP events: 50000 in the source, scaled down
\* here so that the cap is reached
COPIER_KEEP == 2

slaveKey(group, slaveId) == group \o <<Sep>> \o slaveId

\* getSlaveIdsForGroup: the second "|"-piece of every key that starts with group|
getSlaveIdsForGroup(all, group) ==
    LET keys == {k \in DOMAIN all : StartsWith(k, group \o <<Sep>>)}
        sid(k) == IF Len(Split(k)) >= 2 THEN Split(k)[2] ELSE EmptyStr
    IN  {sid(k) : k \in keys} \ {EmptyStr}

\* writeJsonSafe(file, obj): what the file holds after the temporary file has been
\* written and renamed over it.  The file is a one-element sequence, <<>> while it
\* does not exist.  JSON.stringify followed by JSON.parse gives back every value
\* the two records are made of (finite numbers, strings, arrays, plain objects).
writeJsonSafe(obj) == <<obj>>

\* a file that holds a proper prefix of the text of obj: what fs.writeFileSync
\* leaves when the process stops in the middle of the write
Truncated(obj) == <<obj, [cut |-> TRUE]>>

\* readJsonSafe(file, fallback): the fallback for a file that does not exist or is
\* empty, and for a truncated one, which JSON.parse throws on (the text of an
\* object ends with its closing brace)
readJsonSafe(file, fallback) ==
    IF file = <<>> \/ Len(file) > 1 THEN fallback ELSE file[1]

\* mutation of TmpOf: the text is written to the target itself
TmpOfSame(f) == f

\* writeJsonSafe: `const tmp = file + ".tmp"`
TmpOf(f) ==
    IF f = "copier" THEN "copier_tmp"
    ELSE IF f = "slaves" THEN "slaves_tmp"
    ELSE "clients_tmp"

\* the files after writeJsonSafe(f, obj) has returned: the temporary file was
\* written and renamed over f, so it is no longer there
Saved(fl, f, obj) == [fl EXCEPT ![TmpOf(f)] = <<>>, ![f] = writeJsonSafe(obj)]

\* where writeJsonSafe throws: fs.writeFileSync before it has written, after it
\* has written a part of the text, or fs.renameSync
FailPoints == {"open", "write", "rename"}

\* the files after writeJsonSafe(f, obj) has thrown: f is as it was, the temporary
\* file is as it was, holds a part of the text or holds the whole text
SaveThrown(fl, f, obj, how) ==
    [fl EXCEPT ![TmpOf(f)] = IF how = "open" THEN @
                             ELSE IF how = "write" THEN Truncated(obj)
                             ELSE writeJsonSafe(obj)]

\* saveCopier: the cap on the stored events; the write is writeJsonSafe of the result
saveCopier(c) == [c EXCEPT !.events = LastN(c.events, COPIER_KEEP)]

\* the slave record after `if (!slaves.slaves[k]) slaves.slaves[k] = {0, 0}`
slaveRec(k) == GetOr(slaves, k, [lastAckId |-> 0, lastSeenAt |-> 0])

\* mutation of DiskExisting: the lookup finds nothing
DiskExistingNone(e) == <<>>

\* copier.events.find(x => same group, type, master_ticket, open_time)
DiskExisting(e) ==
    SelectSeq(copier.events,
              LAMBDA x : x.group = e.group /\ x.type = e.type
                         /\ x.master_ticket = e.master_ticket
                         /\ x.open_time = e.open_time)

\* mutation of DiskEquity: the pushed value as it is
DiskEquityPushed(e) == e.master_equity

\* master_equity with the fallback to the group's last known value
DiskEquity(e) ==
    IF e.master_equity <= 0
    THEN GetOr(copier.lastMasterEquityByGroup, e.group, 0)
    ELSE e.master_equity

\* the id a new event gets: copier.nextId++
DiskNewId == copier.nextId

DiskNewEvent(e) ==
    [id |-> DiskNewId, group |-> e.group, type |-> e.type, ts |-> now,
     master_ticket |-> e.master_ticket, open_time |-> e.open_time,
     symbol |-> e.symbol, master_equity |-> DiskEquity(e), acks |-> EmptyMap]

\* what POST /copier/push answers
DiskPushResp(e) ==
    IF e.group = EmptyStr \/ e.type = ""
    THEN [code |-> 400, error |-> "missing group/type"]
    ELSE IF e.master_ticket = 0 \/ e.symbol = ""
    THEN [code |-> 400, error |-> "missing master_ticket/symbol"]
    ELSE IF DiskExisting(e) # <<>>
    THEN [code |-> 200, id |-> Head(DiskExisting(e)).id, dup |-> TRUE]
    ELSE [code |-> 200, id |-> DiskNewId, dup |-> FALSE]

\* mutation of DiskAppended: the counter stays where it is
DiskAppendedSameId(e) ==
    saveCopier([copier EXCEPT !.events = Append(@, DiskNewEvent(e))])

\* copier after POST /copier/push appended a new event
DiskAppended(e) ==
    LET ev == DiskNewEvent(e)
        eq == IF ev.master_equity > 0
              THEN Put(copier.lastMasterEquityByGroup, e.group, ev.master_equity)
              ELSE copier.lastMasterEquityByGroup
    IN  saveCopier([nextId |-> copier.nextId + 1,
                    events |-> Append(copier.events, ev),
                    lastMasterEquityByGroup |-> eq])

\* the push is answered with a new id: it passed validation and the lookup
DiskIsNew(e) == DiskPushResp(e).code = 200 /\ ~DiskPushResp(e).dup

\* copier after POST /copier/push
DiskPushed(e) == IF DiskIsNew(e) THEN DiskAppended(e) ELSE copier

\* the files after POST /copier/push: saveCopier runs when an event was appended
DiskPushedFiles(e) ==
    IF DiskIsNew(e) THEN Saved(files, "copier", DiskPushed(e)) ELSE files

\* app.post("/copier/push") (the master key is taken to be right)
DiskPush(e) ==
    /\ server = "disk"
    /\ DiskIsNew(e) => copier.nextId <= MaxId
    /\ copier' = DiskPushed(e)
    /\ files' = DiskPushedFiles(e)
    /\ UNCHANGED <<server, now, slaves, memVars, uidVars, mvp, clients, world, drawn, saving>>

\* what registerSlave and GET /copier/events answer a request without an
\* x-api-key header: `if (!group || !slaveId) return bad(res, 400, ...)`
DiskSeenResp(group, slaveId) ==
    IF group = EmptyStr \/ slaveId = EmptyStr THEN 400 ELSE 200

\* the registry after the upsert of registerSlave and of GET /copier/events
DiskSeen(group, slaveId) ==
    LET k == slaveKey(group, slaveId)
    IN  Put(slaves, k, [slaveRec(k) EXCEPT !.lastSeenAt = now])

\* the files after saveSlaves() in registerSlave and in GET /copier/events
DiskSeenFiles(group, slaveId) ==
    Saved(files, "slaves", DiskSeen(group, slaveId))

\* app.post("/copier/registerSlave"), without an x-api-key header
DiskRegister(group, slaveId) ==
    /\ server = "disk"
    /\ IF DiskSeenResp(group, slaveId) # 200
       THEN UNCHANGED <<slaves, files>>
       ELSE /\ slaves' = DiskSeen(group, slaveId)
            /\ files' = DiskSeenFiles(group, slaveId)
    /\ UNCHANGED <<server, now, copier, memVars, uidVars, mvp, clients, world, drawn, saving>>

\* Math.min(500, Math.max(1, limitRaw)) of a numeric limit
DiskLimit(limitRaw) == Min(MAX_LIMIT, Max(1, limitRaw))

\* what GET /copier/events answers: the loop over copier.events
DiskPollOut(group, slaveId, since, limit) ==
    Take(SelectSeq(copier.events,
                   LAMBDA ev : ev.group = group /\ ~(ev.id <= since)
                               /\ ~Has(ev.acks, slaveId)),
         DiskLimit(limit))

\* app.get("/copier/events"), without an x-api-key header
DiskPoll(group, slaveId) ==
    /\ server = "disk"
    /\ IF DiskSeenResp(group, slaveId) # 200
       THEN UNCHANGED <<slaves, files>>
       ELSE /\ slaves' = DiskSeen(group, slaveId)
            /\ files' = DiskSeenFiles(group, slaveId)
    /\ UNCHANGED <<server, now, copier, memVars, uidVars, mvp, clients, world, drawn, saving>>

\* copier.events.find(x => x.id === event_id && x.group === group): the index of
\* the first such event, 0 when there is none
DiskFindEvent(events, group, event_id) ==
    LET hit == {i \in 1..Len(events) : events[i].id = event_id /\ events[i].group = group}
    IN  IF hit = {} THEN 0 ELSE CHOOSE j \in hit : \A h \in hit : j <= h

\* mutation of DiskRecordAck: an id that is not found is recorded on the last event
DiskRecordAckLast(c, group, slaveId, event_id, status) ==
    LET f == DiskFindEvent(c.events, group, event_id)
        i == IF f = 0 THEN Len(c.events) ELSE f
    IN  IF i = 0 THEN c
        ELSE saveCopier([c EXCEPT !.events[i].acks =
                            Put(@, slaveId, [status |-> status])])

\* `if (ev) { ev.acks[slaveId] = {status, err, ts}; saveCopier(); }`
DiskRecordAck(c, group, slaveId, event_id, status) ==
    LET i == DiskFindEvent(c.events, group, event_id)
    IN  IF i = 0 THEN c
        ELSE saveCopier([c EXCEPT !.events[i].acks =
                            Put(@, slaveId, [status |-> status])])

\* the cleanup filter of POST /copier/ack: an event of the group stays while one of
\* slaveIds has no entry in its ack map
DiskCleanupKeeps(ev2, group, slaveIds) ==
    \/ ev2.group # group
    \/ \E sid \in slaveIds : ~Has(ev2.acks, sid)

\* `if (slaveIds.length > 0) { copier.events = copier.events.filter(...); saveCopier(); }`
DiskCleanup(c, group, slaveIds) ==
    IF slaveIds # {}
    THEN saveCopier([c EXCEPT !.events =
                        SelectSeq(@, LAMBDA ev2 : DiskCleanupKeeps(ev2, group, slaveIds))])
    ELSE c

\* mutation of DiskAcked: lastAckId is set to the acknowledged id
DiskAckedAssign(group, slaveId, event_id) ==
    Put(slaves, slaveKey(group, slaveId), [lastAckId |-> event_id, lastSeenAt |-> now])

\* the registry after the upsert of POST /copier/ack
DiskAcked(group, slaveId, event_id) ==
    LET k == slaveKey(group, slaveId)
    IN  Put(slaves, k, [lastAckId |-> Max(slaveRec(k).lastAckId, event_id),
                        lastSeenAt |-> now])

\* what POST /copier/ack answers
DiskAckResp(group, slaveId, event_id, status) ==
    IF group = EmptyStr \/ slaveId = EmptyStr \/ event_id = 0 \/ status = ""
    THEN [code |-> 400, error |-> "missing fields"]
    ELSE [code |-> 200]

\* POST /copier/ack: copier after `if (ev) { ...; saveCopier(); }`
DiskAckRecorded(group, slaveId, event_id, status) ==
    DiskRecordAck(copier, group, slaveId, event_id, status)

\* POST /copier/ack: getSlaveIdsForGroup(group), after the upsert
DiskAckSlaveIds(group, slaveId, event_id) ==
    getSlaveIdsForGroup(DiskAcked(group, slaveId, event_id), group)

\* POST /copier/ack: copier after the cleanup
DiskAckCleaned(group, slaveId, event_id, status) ==
    DiskCleanup(DiskAckRecorded(group, slaveId, event_id, status), group,
                DiskAckSlaveIds(group, slaveId, event_id))

\* the files after POST /copier/ack: saveSlaves, then saveCopier when the event
\* was found and again when the group has slave ids
DiskAckedFiles(group, slaveId, event_id, status) ==
    LET fl == Saved(files, "slaves", DiskAcked(group, slaveId, event_id))
    IN  IF DiskFindEvent(copier.events, group, event_id) # 0
           \/ DiskAckSlaveIds(group, slaveId, event_id) # {}
        THEN Saved(fl, "copier", DiskAckCleaned(group, slaveId, event_id, status))
        ELSE fl

\* app.post("/copier/ack"), without an x-api-key header
DiskAck(group, slaveId, event_id, status) ==
    /\ server = "disk"
    /\ IF DiskAckResp(group, slaveId, event_id, status).code # 200
       THEN UNCHANGED <<slaves, copier, files>>
       ELSE /\ slaves' = DiskAcked(group, slaveId, event_id)
            /\ copier' = DiskAckCleaned(group, slaveId, event_id, status)
            /\ files' = DiskAckedFiles(group, slaveId, event_id, status)
    /\ UNCHANGED <<server, now, memVars, uidVars, mvp, clients, world, drawn, saving>>

\* what saveCopier and saveSlaves write: the module's copier and slaves
DiskMem(f) == IF f = "copier" THEN copier ELSE slaves

\* what the file f is loaded as when the process starts
DiskLoaded(f) ==
    IF f = "copier"
    THEN readJsonSafe(files.copier, [nextId |-> 1, events |-> <<>>,
                                     lastMasterEquityByGroup |-> EmptyMap])
    ELSE readJsonSafe(files.slaves, EmptyMap)

\* the process is inside writeJsonSafe(f, ...)
DiskSaving(f) == saving # <<>> /\ saving[1].file = f

\* POST /copier/push up to its call of saveCopier: the event is appended, the
\* file is still to be written.  A duplicate push returns without a save.
DiskPushSaving(e) ==
    /\ server = "disk"
    /\ saving = <<>>
    /\ DiskIsNew(e)
    /\ copier.nextId <= MaxId
    /\ copier' = DiskAppended(e)
    /\ saving' = <<[file |-> "copier", step |-> "call"]>>
    /\ UNCHANGED <<server, now, slaves, memVars, uidVars, mvp, files, clients, world, drawn>>

\* registerSlave or GET /copier/events up to its call of saveSlaves, which is
\* made whether or not the upsert has changed the registry
DiskSeenSaving(group, slaveId) ==
    /\ server = "disk"
    /\ saving = <<>>
    /\ DiskSeenResp(group, slaveId) = 200
    /\ slaves' = DiskSeen(group, slaveId)
    /\ saving' = <<[file |-> "slaves", step |-> "call"]>>
    /\ UNCHANGED <<server, now, copier, memVars, uidVars, mvp, files, clients, world, drawn>>

\* fs.writeFileSync(tmp, text) in three steps, whatever the temporary file held:
\* the file is opened and emptied, a part of the text is in it, the whole text
\* is in it
SaveWrite(f) ==
    /\ server = "disk"
    /\ DiskSaving(f)
    /\ saving[1].step \in {"call", "opened", "part"}
    /\ files' = [files EXCEPT ![TmpOf(f)] =
                     IF saving[1].step = "call" THEN <<>>
                     ELSE IF saving[1].step = "opened" THEN Truncated(DiskMem(f))
                     ELSE writeJsonSafe(DiskMem(f))]
    /\ saving' = <<[file |-> f,
                    step |-> IF saving[1].step = "call" THEN "opened"
                             ELSE IF saving[1].step = "opened" THEN "part"
                             ELSE "whole"]>>
    /\ UNCHANGED <<server, now, diskVars, memVars, uidVars, mvp, clients, world, drawn>>

\* fs.renameSync(tmp, file): the temporary file takes the place of the target in
\* one step of the file system, and writeJsonSafe returns
SaveRename(f) ==
    /\ server = "disk"
    /\ DiskSaving(f)
    /\ saving[1].step = "whole"
    /\ files' = [files EXCEPT ![TmpOf(f)] = <<>>, ![f] = files[TmpOf(f)]]
    /\ saving' = <<>>
    /\ UNCHANGED <<server, now, diskVars, memVars, uidVars, mvp, clients, world, drawn>>

\* addDurationMs, in days
addDurationMs(code) ==
    IF code = "M1" THEN 31
    ELSE IF code = "M3" THEN 93
    ELSE IF code = "M6" THEN 186
    ELSE IF code = "Y1" THEN 366
    ELSE 31

\* the day /admin/clients/add was called, before the run: so long ago that the
\* subscription runs out on the day of the first Tick
CreatedAtStart == TickDays - addDurationMs("M1")

\* clients.clients as /admin/clients/add has left it: one subscription of group G
\* and duration M1, enabled, bound to no slave id.  A subscription is found by its
\* api key.
ClientsAtStart ==
    [k \in {"K"} |-> [groupId |-> G, enabled |-> TRUE,
                       expiresAt |-> CreatedAtStart + addDurationMs("M1"),
                       boundSlaveId |-> EmptyStr]]

\* clientActive, for a client that was found
clientActive(c) ==
    IF ~c.enabled THEN FALSE
    ELSE IF c.expiresAt <= now THEN FALSE
    ELSE TRUE

\* the api keys randKeyHex gives, in the order it gives them: each call answers a
\* key it has not answered before
KeyNames == <<"X", "Y", "Z">>

\* /admin/clients/add creates at most MaxAdds subscriptions in a run
MaxAdds == 2

\* the x-api-key headers the slaves send: the key of the subscription the server
\* starts with and the keys /admin/clients/add comes to create
ApiKeys == {"K"} \cup {KeyNames[i] : i \in 1..MaxAdds}

\* requireClientOptional: 0 for null (no x-api-key header), the status it answers
\* for "DENY", 200 when it returns the client
requireClientOptional(cl, k, groupIdFromReq) ==
    IF k = "" THEN 0
    ELSE IF ~Has(cl, k) THEN 401
    ELSE IF ~clientActive(cl[k]) THEN 403
    ELSE IF groupIdFromReq # EmptyStr /\ cl[k].groupId # groupIdFromReq THEN 403
    ELSE 200

\* the bind check of registerSlave, GET /copier/events and POST /copier/ack: the
\* key is bound and to another slave id
DiskBindMismatch(cl, k, group, slaveId) ==
    /\ requireClientOptional(cl, k, group) = 200
    /\ cl[k].boundSlaveId # EmptyStr
    /\ cl[k].boundSlaveId # slaveId

\* the status registerSlave, GET /copier/events and POST /copier/ack answer a
\* request that has its fields with, for the clients store cl
DiskKeyResp(cl, k, group, slaveId) ==
    IF DiskSeenResp(group, slaveId) # 200 THEN 400
    ELSE IF requireClientOptional(cl, k, group) \in {401, 403}
    THEN requireClientOptional(cl, k, group)
    ELSE IF DiskBindMismatch(cl, k, group, slaveId) THEN 403
    ELSE 200

\* clients after registerSlave or GET /copier/events: an unbound key is bound
DiskBound(k, group, slaveId) ==
    IF requireClientOptional(clients, k, group) = 200
       /\ clients[k].boundSlaveId = EmptyStr
    THEN [clients EXCEPT ![k].boundSlaveId = slaveId]
    ELSE clients

\* clients, slaves and the files after registerSlave or GET /copier/events sent
\* with x-api-key k
DiskKeySeen(k, group, slaveId) ==
    IF DiskKeyResp(clients, k, group, slaveId) # 200
    THEN [clients |-> clients, slaves |-> slaves, files |-> files]
    ELSE [clients |-> DiskBound(k, group, slaveId),
          slaves |-> DiskSeen(group, slaveId),
          files |-> IF DiskBound(k, group, slaveId) # clients
                    THEN Saved(DiskSeenFiles(group, slaveId), "clients",
                               DiskBound(k, group, slaveId))
                    ELSE DiskSeenFiles(group, slaveId)]

\* app.post("/copier/registerSlave") with x-api-key k
DiskRegisterKey(k, group, slaveId) ==
    /\ server = "disk"
    /\ clients' = DiskKeySeen(k, group, slaveId).clients
    /\ slaves' = DiskKeySeen(k, group, slaveId).slaves
    /\ files' = DiskKeySeen(k, group, slaveId).files
    /\ UNCHANGED <<server, now, copier, memVars, uidVars, mvp, world, drawn, saving>>

\* app.get("/copier/events") with x-api-key k
DiskPollKey(k, group, slaveId) ==
    /\ server = "disk"
    /\ clients' = DiskKeySeen(k, group, slaveId).clients
    /\ slaves' = DiskKeySeen(k, group, slaveId).slaves
    /\ files' = DiskKeySeen(k, group, slaveId).files
    /\ UNCHANGED <<server, now, copier, memVars, uidVars, mvp, world, drawn, saving>>

\* slaves, copier and the files after POST /copier/ack sent with x-api-key k; the
\* handler does not write clients
DiskKeyAcked(k, group, slaveId, event_id, status) ==
    IF DiskAckResp(group, slaveId, event_id, status).code # 200
       \/ DiskKeyResp(clients, k, group, slaveId) # 200
    THEN [slaves |-> slaves, copier |-> copier, files |-> files]
    ELSE [slaves |-> DiskAcked(group, slaveId, event_id),
          copier |-> DiskAckCleaned(group, slaveId, event_id, status),
          files |-> DiskAckedFiles(group, slaveId, event_id, status)]

\* app.post("/copier/ack") with x-api-key k
DiskAckKey(k, group, slaveId, event_id, status) ==
    /\ server = "disk"
    /\ slaves' = DiskKeyAcked(k, group, slaveId, event_id, status).slaves
    /\ copier' = DiskKeyAcked(k, group, slaveId, event_id, status).copier
    /\ files' = DiskKeyAcked(k, group, slaveId, event_id, status).files
    /\ UNCHANGED <<server, now, clients, memVars, uidVars, mvp, world, drawn, saving>>

\* app.post("/admin/clients/resetBind") for the subscription with api key k
AdminResetBind(k) ==
    /\ server = "disk"
    /\ Has(clients, k)
    /\ clients' = [clients EXCEPT ![k].boundSlaveId = EmptyStr]
    /\ files' = Saved(files, "clients", clients')
    /\ UNCHANGED <<server, now, diskVars, memVars, uidVars, mvp, world, drawn, saving>>

\* bodies of POST /admin/clients/add (fullName is given in all of them): a
\* subscription of group G for a month, and a body without groupId
Adds == { [groupId |-> G, duration |-> "M1"], [groupId |-> EmptyStr, duration |-> "M1"] }

\* the api key randKeyHex gives the subscription that /admin/clients/add creates:
\* a key no earlier call has given.  A subscription's clientId is written as its
\* api key.
NewKey == KeyNames[drawn + 1]

\* what POST /admin/clients/add answers (the admin key is right, here and in the
\* other admin requests)
DiskAdminAddResp(b) == IF b.groupId = EmptyStr THEN 400 ELSE 200

\* clients after POST /admin/clients/add
DiskAdminAdded(b) ==
    IF DiskAdminAddResp(b) # 200 THEN clients
    ELSE Put(clients, NewKey,
             [groupId |-> b.groupId, enabled |-> TRUE,
              expiresAt |-> now + addDurationMs(b.duration),
              boundSlaveId |-> EmptyStr])

\* app.post("/admin/clients/add"): a body without groupId is answered before a
\* key is drawn
DiskAdminAdd(b) ==
    /\ server = "disk"
    /\ drawn < world.adds
    /\ drawn' = IF DiskAdminAddResp(b) # 200 THEN drawn ELSE drawn + 1
    /\ clients' = DiskAdminAdded(b)
    /\ files' = IF DiskAdminAddResp(b) # 200 THEN files
                ELSE Saved(files, "clients", DiskAdminAdded(b))
    /\ UNCHANGED <<server, now, diskVars, memVars, uidVars, mvp, world, saving>>

\* app.post("/admin/clients/disable") for the subscription k: 404 when there is
\* none, else enabled is set to Boolean(b.enabled)
DiskAdminDisable(k, enabled) ==
    /\ server = "disk"
    /\ clients' = IF ~Has(clients, k) THEN clients
                  ELSE [clients EXCEPT ![k].enabled = enabled]
    /\ files' = IF ~Has(clients, k) THEN files ELSE Saved(files, "clients", clients')
    /\ UNCHANGED <<server, now, diskVars, memVars, uidVars, mvp, world, drawn, saving>>

\* POST /admin/clients/extend of part_001: the day the subscription runs out
\* afterwards
DiskAdminExtendNext(k, duration) ==
    Max(now, clients[k].expiresAt) + addDurationMs(duration)

\* app.post("/admin/clients/extend") of part_001 for the subscription k
DiskAdminExtend(k, duration) ==
    /\ server = "disk"
    /\ Has(clients, k) => DiskAdminExtendNext(k, duration) <= MaxExpiresDay
    /\ clients' = IF ~Has(clients, k) THEN clients
                  ELSE [clients EXCEPT ![k].expiresAt = DiskAdminExtendNext(k, duration)]
    /\ files' = IF ~Has(clients, k) THEN files ELSE Saved(files, "clients", clients')
    /\ UNCHANGED <<server, now, diskVars, memVars, uidVars, mvp, world, drawn, saving>>

\* app.post("/admin/clients/delete") for the subscription k: the list is
\* filtered and saved, whether or not k was in it
DiskAdminDelete(k) ==
    /\ server = "disk"
    /\ clients' = [x \in DOMAIN clients \ {k} |-> clients[x]]
    /\ files' = Saved(files, "clients", clients')
    /\ UNCHANGED <<server, now, diskVars, memVars, uidVars, mvp, world, drawn, saving>>

\* POST /copier/push when writeJsonSafe throws in saveCopier: the event is in
\* memory, copier_events.json is as it was, the request errors
DiskPushFail(e, how) ==
    /\ server = "disk"
    /\ DiskIsNew(e)
    /\ copier.nextId <= MaxId
    /\ copier' = DiskAppended(e)
    /\ files' = SaveThrown(files, "copier", DiskAppended(e), how)
    /\ UNCHANGED <<server, now, slaves, memVars, uidVars, mvp, clients, world, drawn, saving>>

\* registerSlave or GET /copier/events when writeJsonSafe throws in saveSlaves
DiskSeenFail(group, slaveId, how) ==
    /\ server = "disk"
    /\ DiskSeenResp(group, slaveId) = 200
    /\ slaves' = DiskSeen(group, slaveId)
    /\ files' = SaveThrown(files, "slaves", DiskSeen(group, slaveId), how)
    /\ UNCHANGED <<server, now, copier, memVars, uidVars, mvp, clients, world, drawn, saving>>

\* POST /copier/ack when writeJsonSafe throws: in saveSlaves (at = 1), in the
\* saveCopier that follows the ack entry (at = 2), or in the saveCopier that
\* follows the cleanup (at = 3)
DiskAckFail(group, slaveId, event_id, status, at, how) ==
    /\ server = "disk"
    /\ DiskAckResp(group, slaveId, event_id, status).code = 200
    /\ slaves' = DiskAcked(group, slaveId, event_id)
    /\ CASE at = 1 ->
             /\ UNCHANGED copier
             /\ files' = SaveThrown(files, "slaves",
                                    DiskAcked(group, slaveId, event_id), how)
         [] at = 2 ->
             /\ DiskFindEvent(copier.events, group, event_id) # 0
             /\ copier' = DiskAckRecorded(group, slaveId, event_id, status)
             /\ files' = SaveThrown(Saved(files, "slaves",
                                          DiskAcked(group, slaveId, event_id)),
                                    "copier",
                                    DiskAckRecorded(group, slaveId, event_id, status),
                                    how)
         [] at = 3 ->
             /\ DiskAckSlaveIds(group, slaveId, event_id) # {}
             /\ copier' = DiskAckCleaned(group, slaveId, event_id, status)
             /\ files' =
                   LET fl == Saved(files, "slaves", DiskAcked(group, slaveId, event_id))
                       fl2 == IF DiskFindEvent(copier.events, group, event_id) # 0
                              THEN Saved(fl, "copier",
                                         DiskAckRecorded(group, slaveId, event_id, status))
                              ELSE fl
                   IN  SaveThrown(fl2, "copier",
                                  DiskAckCleaned(group, slaveId, event_id, status), how)
    /\ UNCHANGED <<server, now, memVars, uidVars, mvp, clients, world, drawn, saving>>

\* the process is started again: copier, slaves and clients are read from their
\* files
DiskRestart ==
    /\ server = "disk"
    /\ copier' = readJsonSafe(files.copier,
                              [nextId |-> 1, events |-> <<>>,
                               lastMasterEquityByGroup |-> EmptyMap])
    /\ slaves' = readJsonSafe(files.slaves, EmptyMap)
    /\ clients' = readJsonSafe(files.clients, EmptyMap)
    /\ saving' = <<>>
    /\ UNCHANGED <<server, now, memVars, uidVars, mvp, files, world, drawn>>

----------------------------------------------------------------------------
(* server.js (mem): groupEvents + seenEventKey + slaveLastAck + groupSlaves *)
(* groupEvents and groupSlaves hold an entry for every group from the start: *)
(* the code creates a missing entry empty on first use.                      *)

\* cleanupGroup keeps the last MEM_MAX events of a group: 20000 in the source,
\* scaled down here so that the cap is reached
MEM_MAX == 2
\* cleanupGroup drops events older than MEM_MAX_AGE days
MEM_MAX_AGE == 14
\* the clients of clients.json when the server starts: one enabled subscription
\* without expiry per slave
ClientsByKeyAtStart ==
    [c \in Slaves |-> [group |-> c[1], slaveId |-> c[2], enabled |-> TRUE,
                       expiresAt |-> <<>>]]

\* loadClients: the map it makes of what clients.json holds; an empty map when
\* the file is missing, is empty or does not parse
loadClients(file) == IF Len(file) = 1 THEN file[1] ELSE EmptyMap

\* the files after saveClients: fs.writeFileSync writes clients.json in place
saveClients(fl, list, how) ==
    [fl EXCEPT !.clients = IF how = "saved" THEN <<list>>
                           ELSE IF how = "open" THEN @
                           ELSE Truncated(list)]

\* validateClientKey + validateCopierSlave: the status the request is refused
\* with, 200 when it is let through.  parseExpiresMs answers 0 for "" and a
\* number that is not 0 for a date.
validateCopierSlave(key, group, slaveId) ==
    IF ~Has(clientsByKey, key) THEN 401
    ELSE IF ~clientsByKey[key].enabled THEN 403
    ELSE IF clientsByKey[key].expiresAt # <<>> /\ now > clientsByKey[key].expiresAt[1]
    THEN 403
    ELSE IF clientsByKey[key].group = EmptyStr \/ clientsByKey[key].slaveId = EmptyStr
    THEN 403
    ELSE IF group # clientsByKey[key].group THEN 403
    ELSE IF slaveId # clientsByKey[key].slaveId THEN 403
    ELSE 200

\* what POST /admin/clients/upsert answers (the admin key is taken to be set and
\* right, here and in the other admin requests)
AdminUpsertResp(b) ==
    IF b.group = EmptyStr \/ b.slaveId = EmptyStr THEN 400 ELSE 200

\* clientsByKey after POST /admin/clients/upsert
AdminUpserted(b) ==
    IF AdminUpsertResp(b) # 200 THEN clientsByKey
    ELSE Put(clientsByKey, b.apiKey,
             [group |-> b.group, slaveId |-> b.slaveId, enabled |-> b.enabled,
              expiresAt |-> b.expiresAt])

\* app.post("/admin/clients/upsert"): saveClients is called in a try with an
\* empty catch
AdminUpsert(b, how) ==
    /\ server = "mem"
    /\ clientsByKey' = AdminUpserted(b)
    /\ files' = IF AdminUpsertResp(b) # 200 THEN files
                ELSE saveClients(files, AdminUpserted(b), how)
    /\ UNCHANGED <<server, now, nextEventId, groupEvents, seenEventKey, slaveLastAck,
                   groupSlaves, diskVars, uidVars, mvp, clients, world, drawn, saving>>

\* what POST /admin/clients/extend answers
AdminExtendResp(b) == IF ~Has(clientsByKey, b.apiKey) THEN 404 ELSE 200

\* POST /admin/clients/extend: the day the subscription runs out afterwards, a
\* month being 30 days
AdminExtendNext(b) ==
    LET e == clientsByKey[b.apiKey].expiresAt
        start == IF e # <<>> /\ e[1] > now THEN e[1] ELSE now
        add == Max(1, Min(24, b.months))
    IN  start + add * 30

\* clientsByKey after POST /admin/clients/extend
AdminExtended(b) ==
    IF AdminExtendResp(b) # 200 THEN clientsByKey
    ELSE [clientsByKey EXCEPT ![b.apiKey].expiresAt = <<AdminExtendNext(b)>>]

\* app.post("/admin/clients/extend")
AdminExtend(b, how) ==
    /\ server = "mem"
    /\ AdminExtendResp(b) = 200 => AdminExtendNext(b) <= MaxExpiresDay
    /\ clientsByKey' = AdminExtended(b)
    /\ files' = IF AdminExtendResp(b) # 200 THEN files
                ELSE saveClients(files, AdminExtended(b), how)
    /\ UNCHANGED <<server, now, nextEventId, groupEvents, seenEventKey, slaveLastAck,
                   groupSlaves, diskVars, uidVars, mvp, clients, world, drawn, saving>>

\* app.post("/admin/clients/reload")
AdminReload ==
    /\ server = "mem"
    /\ clientsByKey' = loadClients(files.clients)
    /\ UNCHANGED <<server, now, nextEventId, groupEvents, seenEventKey, slaveLastAck,
                   groupSlaves, diskVars, uidVars, mvp, files, clients, world, drawn, saving>>

\* the requests of the slaves of a run: each subscription with its own identity,
\* one subscription with another slave's identity, and an unknown key
SlaveRequests(cs) ==
    {[key |-> c, group |-> c[1], slaveId |-> c[2]] : c \in cs}
    \cup {[key |-> <<G, A>>, group |-> G, slaveId |-> B],
          [key |-> BadKey, group |-> G, slaveId |-> A]}

\* normalizeEvent (the model's inputs are trimmed and upper-case already)
normalizeEvent(body) ==
    [group |-> body.group, type |-> body.type, master_ticket |-> body.master_ticket,
     open_time |-> body.open_time, uid |-> body.uid, symbol |-> body.symbol,
     cmd |-> body.cmd]

\* ev0.uid || `${ev0.master_ticket}_${ev0.open_time || 0}`
MemUid(ev0) ==
    IF ev0.uid # EmptyStr THEN ev0.uid
    ELSE <<ToString(ev0.master_ticket), "_", ToString(ev0.open_time)>>

\* `${ev0.group}|${ev0.type}|${uid}`
MemKey(ev0) == ev0.group \o <<Sep, ev0.type, Sep>> \o MemUid(ev0)

\* the id a new event gets: nextEventId++
MemNewId == nextEventId

\* what POST /copier/push answers
MemPushResp(body) ==
    LET ev0 == normalizeEvent(body)
    IN  IF ev0.group = EmptyStr \/ ev0.type = "" \/ ev0.symbol = "" \/ ev0.master_ticket = 0
        THEN [code |-> 400, error |-> "missing fields"]
        ELSE IF ev0.type \notin {"OPEN", "CLOSE", "MODIFY"}
        THEN [code |-> 400, error |-> "bad type"]
        ELSE IF GetOr(seenEventKey, MemKey(ev0), 0) # 0
        THEN [code |-> 200, id |-> seenEventKey[MemKey(ev0)], dup |-> TRUE]
        ELSE [code |-> 200, id |-> MemNewId, dup |-> FALSE]

MemNewEvent(body) ==
    LET ev0 == normalizeEvent(body)
    IN  [id |-> MemNewId, group |-> ev0.group, type |-> ev0.type, ts |-> now,
         master_ticket |-> ev0.master_ticket, open_time |-> ev0.open_time,
         uid |-> MemUid(ev0), symbol |-> ev0.symbol, ack |-> EmptyMap,
         _key |-> MemKey(ev0)]

\* mutation of MemCapped: the newest events are dropped
MemCappedHead(arr) == SubSeq(arr, 1, Min(MEM_MAX, Len(arr)))

\* the size cap of cleanupGroup: arr.splice(0, arr.length - MAX)
MemCapped(arr) == LastN(arr, MEM_MAX)

\* the age loop of cleanupGroup: how many events at the head are older than cutoff
RECURSIVE MemExpiredPrefix(_, _)
MemExpiredPrefix(arr, cutoff) ==
    IF arr # <<>> /\ Head(arr).ts < cutoff
    THEN 1 + MemExpiredPrefix(Tail(arr), cutoff)
    ELSE 0

\* cleanupGroup(group): what it leaves of the group's array
cleanupGroupArr(arr) ==
    LET capped == MemCapped(arr)
        n == MemExpiredPrefix(capped, now - MEM_MAX_AGE)
    IN  SubSeq(capped, n + 1, Len(capped))

\* cleanupGroup(group): what it leaves of seenEventKey (the keys of the events
\* the age loop shifted out are deleted)
cleanupGroupSeen(arr, seen) ==
    LET capped == MemCapped(arr)
        n == MemExpiredPrefix(capped, now - MEM_MAX_AGE)
        gone == {capped[i]._key : i \in 1..n}
    IN  [k \in (DOMAIN seen) \ gone |-> seen[k]]

\* the push is answered with a new id: it passed validation and the lookup
MemIsNew(body) == MemPushResp(body).code = 200 /\ ~MemPushResp(body).dup

\* nextEventId, groupEvents and seenEventKey after POST /copier/push
MemPushed(body) ==
    IF MemIsNew(body)
    THEN LET ev == MemNewEvent(body)
             arr == Append(groupEvents[ev.group], ev)
             seen == Put(seenEventKey, ev._key, ev.id)
         IN  [nextEventId |-> nextEventId + 1,
              groupEvents |-> [groupEvents EXCEPT ![ev.group] = cleanupGroupArr(arr)],
              seenEventKey |-> cleanupGroupSeen(arr, seen)]
    ELSE [nextEventId |-> nextEventId, groupEvents |-> groupEvents,
          seenEventKey |-> seenEventKey]

\* app.post("/copier/push") (the master key is taken to be right)
MemPush(body) ==
    /\ server = "mem"
    /\ MemIsNew(body) => nextEventId <= MaxId
    /\ nextEventId' = MemPushed(body).nextEventId
    /\ groupEvents' = MemPushed(body).groupEvents
    /\ seenEventKey' = MemPushed(body).seenEventKey
    /\ UNCHANGED <<server, now, slaveLastAck, groupSlaves, clientsByKey, diskVars, uidVars, mvp, files, clients, world, drawn, saving>>

\* app.post("/copier/registerSlave")
MemRegister(r) ==
    /\ server = "mem"
    /\ LET k == slaveKey(r.group, r.slaveId)
       IN  IF validateCopierSlave(r.key, r.group, r.slaveId) # 200
           THEN UNCHANGED <<groupSlaves, slaveLastAck>>
           ELSE /\ groupSlaves' = [groupSlaves EXCEPT ![r.group] = @ \cup {r.slaveId}]
                /\ slaveLastAck' = IF Has(slaveLastAck, k) THEN slaveLastAck
                                   ELSE Put(slaveLastAck, k, 0)
    /\ UNCHANGED <<server, now, nextEventId, groupEvents, seenEventKey, clientsByKey, diskVars,
                   uidVars, mvp, files, clients, world, drawn, saving>>

\* Math.max(1, Math.min(500, limitRaw)) of a numeric limit
MemLimit(limitRaw) == Max(1, Min(MAX_LIMIT, limitRaw))

\* what GET /copier/events sends of an event: everything but ack and _key
MemWire(ev) ==
    [id |-> ev.id, group |-> ev.group, type |-> ev.type, ts |-> ev.ts,
     master_ticket |-> ev.master_ticket, open_time |-> ev.open_time,
     uid |-> ev.uid, symbol |-> ev.symbol]

\* mutation of MemEffSince: the cursor of the request alone
MemEffSinceRequest(group, slaveId, since) == since

\* Math.max(since, lastAck)
MemEffSince(group, slaveId, since) ==
    Max(since, GetOr(slaveLastAck, slaveKey(group, slaveId), 0))

\* what GET /copier/events answers to a request that is let through: the loop
\* over the group's array
MemPollOut(group, slaveId, since, limit) ==
    LET effSince == MemEffSince(group, slaveId, since)
        sel == Take(SelectSeq(groupEvents[group], LAMBDA ev : ~(ev.id <= effSince)),
                    MemLimit(limit))
    IN  [i \in 1..Len(sel) |-> MemWire(sel[i])]

\* app.get("/copier/events")
MemPoll(r) ==
    /\ server = "mem"
    /\ IF validateCopierSlave(r.key, r.group, r.slaveId) # 200
       THEN UNCHANGED groupSlaves
       ELSE groupSlaves' = [groupSlaves EXCEPT ![r.group] = @ \cup {r.slaveId}]
    /\ UNCHANGED <<server, now, nextEventId, groupEvents, seenEventKey, slaveLastAck,
                   clientsByKey, diskVars, uidVars, mvp, files, clients, world, drawn, saving>>

\* mutation of MemRecordAck: the ack map is replaced by the one new entry
MemRecordAckAlone(arr, slaveId, event_id, status) ==
    LET hit == {i \in 1..Len(arr) : arr[i].id = event_id}
    IN  IF hit = {} THEN arr
        ELSE LET i == CHOOSE j \in hit : \A h \in hit : j >= h
             IN  [arr EXCEPT ![i].ack = (slaveId :> [status |-> status])]

\* the group's array after `ev.ack[slaveId] = {status, err, ts}` on the last event
\* with this id
MemRecordAck(arr, slaveId, event_id, status) ==
    LET hit == {i \in 1..Len(arr) : arr[i].id = event_id}
    IN  IF hit = {} THEN arr
        ELSE LET i == CHOOSE j \in hit : \A h \in hit : j >= h
             IN  [arr EXCEPT ![i].ack = Put(@, slaveId, [status |-> status])]

\* slaveLastAck after `if (event_id > prev) slaveLastAck.set(k, event_id)`
MemAcked(group, slaveId, event_id) ==
    LET k == slaveKey(group, slaveId)
    IN  IF event_id > GetOr(slaveLastAck, k, 0) THEN Put(slaveLastAck, k, event_id)
        ELSE slaveLastAck

\* what POST /copier/ack answers
MemAckResp(r, event_id) ==
    IF validateCopierSlave(r.key, r.group, r.slaveId) # 200
    THEN [code |-> validateCopierSlave(r.key, r.group, r.slaveId)]
    ELSE IF event_id = 0 THEN [code |-> 400]
    ELSE [code |-> 200]

\* app.post("/copier/ack")
MemAck(r, event_id, status) ==
    /\ server = "mem"
    /\ IF MemAckResp(r, event_id).code # 200
       THEN UNCHANGED <<groupSlaves, slaveLastAck, groupEvents>>
       ELSE /\ groupSlaves' = [groupSlaves EXCEPT ![r.group] = @ \cup {r.slaveId}]
            /\ slaveLastAck' = MemAcked(r.group, r.slaveId, event_id)
            /\ groupEvents' = [groupEvents EXCEPT ![r.group] =
                                  MemRecordAck(@, r.slaveId, event_id, status)]
    /\ UNCHANGED <<server, now, nextEventId, seenEventKey, clientsByKey, diskVars, uidVars, mvp, files, clients, world, drawn, saving>>

----------------------------------------------------------------------------
(* part_000 (uid): copierEvents + copierLastAckBySlave + copierUidState *)

\* copierCleanup keeps the last COPIER_MAX_EVENTS events: 50000 in the source,
\* scaled down here so that the cap is reached
COPIER_MAX_EVENTS == 2
\* copierCleanup forgets the ticket state of a uid after UID_STATE_DAYS days
UID_STATE_DAYS == 7

\* `${group}|${uid}`
ukeyOf(group, uid) == group \o <<Sep>> \o uid

\* copierUidState.get(ukey) || { open:false, lastType:'', ts:0 }
UidState(ukey) == GetOr(copierUidState, ukey, [open |-> FALSE, lastType |-> "", ts |-> 0])

\* mutation of UidReject: a closed position cannot be opened again
UidRejectReopen(type, st) ==
    IF type = "OPEN"
    THEN IF st.open = TRUE \/ st.lastType = "CLOSE" THEN "OPEN_ALREADY" ELSE ""
    ELSE IF st.open = FALSE THEN "CLOSE_WITHOUT_OPEN"
         ELSE IF st.lastType = "CLOSE" THEN "CLOSE_ALREADY"
         ELSE ""

\* the reason the ticket state machine refuses a push with, "" when it accepts
UidReject(type, st) ==
    IF type = "OPEN"
    THEN IF st.open = TRUE THEN "OPEN_ALREADY" ELSE ""
    ELSE IF st.open = FALSE THEN "CLOSE_WITHOUT_OPEN"
         ELSE IF st.lastType = "CLOSE" THEN "CLOSE_ALREADY"
         ELSE ""

\* the ticket state after an accepted push
UidAccept(type) ==
    IF type = "OPEN"
    THEN [open |-> TRUE, lastType |-> "OPEN", ts |-> now]
    ELSE [open |-> FALSE, lastType |-> "CLOSE", ts |-> now]

\* copierCleanup: the ticket states that are not older than the cutoff
copierCleanupState(states) ==
    LET cutoff == now - UID_STATE_DAYS
    IN  [k \in {x \in DOMAIN states : ~(states[x].ts < cutoff)} |-> states[k]]

\* copierCleanup: copierEvents.splice(0, length - COPIER_MAX_EVENTS)
copierCleanupEvents(events) == LastN(events, COPIER_MAX_EVENTS)

\* the id a new event gets: copierNextEventId++
UidNewId == copierNextEventId

\* what POST /copier/push answers
UidPushResp(e) ==
    IF e.type # "OPEN" /\ e.type # "CLOSE"
    THEN [code |-> 400, error |-> "type must be OPEN/CLOSE"]
    ELSE IF e.uid = EmptyStr \/ e.master_ticket = 0 \/ e.open_time = 0
            \/ e.symbol = "" \/ e.cmd < 0
    THEN [code |-> 400, error |-> "missing fields"]
    ELSE IF UidReject(e.type, UidState(ukeyOf(GroupOrG1(e.group), e.uid))) # ""
    THEN [code |-> 200, duplicated |-> TRUE,
          reason |-> UidReject(e.type, UidState(ukeyOf(GroupOrG1(e.group), e.uid)))]
    ELSE [code |-> 200, duplicated |-> FALSE, event_id |-> UidNewId]

UidNewEvent(e) ==
    [event_id |-> UidNewId, group |-> GroupOrG1(e.group), type |-> e.type, uid |-> e.uid,
     master_ticket |-> e.master_ticket, open_time |-> e.open_time,
     symbol |-> e.symbol, ts |-> now]

\* the push is answered with a new event_id: it passed validation and the ticket
\* state machine
UidIsNew(e) == UidPushResp(e).code = 200 /\ ~UidPushResp(e).duplicated

\* mutation of UidPushed: the id is taken before the ticket state machine decides
UidPushedCounting(e) ==
    IF UidPushResp(e).code # 200
    THEN [copierNextEventId |-> copierNextEventId, copierUidState |-> copierUidState,
          copierEvents |-> copierEvents]
    ELSE [copierNextEventId |-> copierNextEventId + 1,
          copierUidState |->
              IF UidIsNew(e)
              THEN copierCleanupState(Put(copierUidState, ukeyOf(GroupOrG1(e.group), e.uid),
                                          UidAccept(e.type)))
              ELSE copierUidState,
          copierEvents |->
              IF UidIsNew(e)
              THEN copierCleanupEvents(Append(copierEvents, UidNewEvent(e)))
              ELSE copierEvents]

\* copierNextEventId, copierUidState and copierEvents after POST /copier/push
UidPushed(e) ==
    IF UidIsNew(e)
    THEN [copierNextEventId |-> copierNextEventId + 1,
          copierUidState |->
              copierCleanupState(Put(copierUidState, ukeyOf(GroupOrG1(e.group), e.uid),
                                     UidAccept(e.type))),
          copierEvents |-> copierCleanupEvents(Append(copierEvents, UidNewEvent(e)))]
    ELSE [copierNextEventId |-> copierNextEventId, copierUidState |-> copierUidState,
          copierEvents |-> copierEvents]

\* app.post('/copier/push') (authOk is taken to pass)
UidPush(e) ==
    /\ server = "uid"
    /\ UidIsNew(e) => copierNextEventId <= MaxId
    /\ copierNextEventId' = UidPushed(e).copierNextEventId
    /\ copierUidState' = UidPushed(e).copierUidState
    /\ copierEvents' = UidPushed(e).copierEvents
    /\ UNCHANGED <<server, now, copierLastAckBySlave, diskVars, memVars, mvp, files, clients, world, drawn, saving>>

\* copierLastAckBySlave after `if (event_id > last) copierLastAckBySlave.set(key, event_id)`
UidAcked(group, slaveId, event_id) ==
    LET key == slaveKey(GroupOrG1(group), SlaveOrS01(slaveId))
    IN  IF event_id > GetOr(copierLastAckBySlave, key, 0)
        THEN Put(copierLastAckBySlave, key, event_id)
        ELSE copierLastAckBySlave

\* app.post('/copier/ack')
UidAck(group, slaveId, event_id) ==
    /\ server = "uid"
    /\ copierLastAckBySlave' = IF event_id = 0 THEN copierLastAckBySlave
                               ELSE UidAcked(group, slaveId, event_id)
    /\ UNCHANGED <<server, now, copierNextEventId, copierEvents, copierUidState,
                   diskVars, memVars, mvp, files, clients, world, drawn, saving>>

\* Math.min(Number(limit), 500) of a numeric limit
UidLimit(limitRaw) == Min(limitRaw, MAX_LIMIT)

\* what GET /copier/events answers: the loop over copierEvents, which pushes an
\* event and then breaks on `out.length >= limit`
UidPollOut(group, slaveId, since, limit) ==
    LET lastAck == GetOr(copierLastAckBySlave,
                         slaveKey(GroupOrG1(group), SlaveOrS01(slaveId)), 0)
    IN  Take(SelectSeq(copierEvents,
                       LAMBDA ev : ev.group = GroupOrG1(group) /\ ~(ev.event_id <= since)
                                   /\ ~(ev.event_id <= lastAck)),
             Max(1, UidLimit(limit)))

\* app.get('/copier/events'): it changes nothing
UidPoll(group, slaveId) ==
    /\ server = "uid"
    /\ UNCHANGED <<server, now, diskVars, memVars, uidVars, mvp, files, clients, world, drawn, saving>>

----------------------------------------------------------------------------
(* part_001 from line 513 (mvp): nextEventId + events *)

\* events.splice(0, length - MAX_EVENTS), line 564: 20000 in the source, scaled down here so
\* that the cap is reached
MAX_EVENTS == 2

\* String(e.group || "G1")
MvpGroup(e) == GroupOrG1(e.group)

\* the type check, made before the payload is built
MvpTypeOk(e) == e.type = "OPEN" \/ e.type = "CLOSE"

\* payload: its event_id is nextEventId++, evaluated while the payload is built
MvpPayload(e) ==
    [event_id |-> mvp.nextEventId, group |-> MvpGroup(e), type |-> e.type,
     master_ticket |-> e.master_ticket, symbol |-> e.symbol, cmd |-> e.cmd,
     ts |-> now]

\* `!payload.master_ticket || !payload.symbol || payload.cmd < 0`
MvpMissing(e) == e.master_ticket = 0 \/ e.symbol = "" \/ e.cmd < 0

\* what POST /push answers
MvpPushResp(e) ==
    IF ~MvpTypeOk(e) THEN [code |-> 400, error |-> "type must be OPEN/CLOSE"]
    ELSE IF MvpMissing(e) THEN [code |-> 400, error |-> "missing fields"]
    ELSE [code |-> 200, event_id |-> mvp.nextEventId]

\* nextEventId and events after POST /push
MvpPushed(e) ==
    IF ~MvpTypeOk(e) THEN mvp
    ELSE IF MvpMissing(e) THEN [mvp EXCEPT !.nextEventId = @ + 1]
    ELSE [nextEventId |-> mvp.nextEventId + 1,
          events |-> LastN(Append(mvp.events, MvpPayload(e)), MAX_EVENTS)]

\* app.post("/push") (API_KEY is taken to be unset)
MvpPush(e) ==
    /\ server = "mvp"
    /\ MvpTypeOk(e) => mvp.nextEventId <= MaxId
    /\ mvp' = MvpPushed(e)
    /\ UNCHANGED <<server, now, diskVars, memVars, uidVars, files, clients, world, drawn, saving>>

\* what GET /events answers: the loop over events, which pushes an event and
\* then breaks on `out.length >= limit`
MvpPollOut(group, since, limit) ==
    Take(SelectSeq(mvp.events,
                   LAMBDA ev : ev.group = GroupOrG1(group) /\ ~(ev.event_id <= since)),
         Max(1, Min(limit, MAX_LIMIT)))

\* app.get("/events"): it changes nothing
MvpPoll(group) ==
    /\ server = "mvp"
    /\ UNCHANGED <<server, now, diskVars, memVars, uidVars, mvp, files, clients, world, drawn, saving>>

----------------------------------------------------------------------------
(* The limit parameter of GET /copier/events, as the query string carries it.  *)
(* A JavaScript number is written [nan, t]: NaN, or the value t in tenths.     *)
(* The strings that are read are decimal numerals with an optional sign and    *)
(* at most one fractional digit; the other strings that are sent are strings   *)
(* Number() makes NaN of.  An absent parameter and an empty one are the empty  *)
(* string: both are falsy in `req.query.limit || 200`.                         *)

NaN == [nan |-> TRUE, t |-> 0]
Num(n) == [nan |-> FALSE, t |-> 10 * n]

Digits == {ToString(d) : d \in 0..9}
DigitVal(ch) == CHOOSE d \in 0..9 : ToString(d) = ch

\* the value of a sequence of digits
RECURSIVE DigitsVal(_)
DigitsVal(s) ==
    IF s = <<>> THEN 0
    ELSE 10 * DigitsVal(SubSeq(s, 1, Len(s) - 1)) + DigitVal(s[Len(s)])

\* Number(s) of an unsigned numeral, in tenths; -1 when s is not one
UnsignedTenths(s) ==
    IF s # <<>> /\ \A i \in 1..Len(s) : s[i] \in Digits
    THEN 10 * DigitsVal(s)
    ELSE IF Len(s) >= 3 /\ s[Len(s) - 1] = "."
            /\ \A i \in (1..Len(s)) \ {Len(s) - 1} : s[i] \in Digits
    THEN 10 * DigitsVal(SubSeq(s, 1, Len(s) - 2)) + DigitVal(s[Len(s)])
    ELSE -1

\* Number(s) of a non-empty string
ToNumber(s) ==
    LET neg == s # <<>> /\ s[1] = "-"
        u == UnsignedTenths(IF neg THEN Tail(s) ELSE s)
    IN  IF u < 0 THEN NaN
        ELSE [nan |-> FALSE, t |-> IF neg THEN 0 - u ELSE u]

\* Number(req.query.limit || dflt)
NumberOr(q, dflt) == IF q = EmptyStr THEN Num(dflt) ELSE ToNumber(q)

\* Math.min and Math.max: NaN when an argument is NaN
MathMin(a, b) == IF a.nan \/ b.nan THEN NaN ELSE IF a.t <= b.t THEN a ELSE b
MathMax(a, b) == IF a.nan \/ b.nan THEN NaN ELSE IF a.t >= b.t THEN a ELSE b

\* the least whole number that is not below a number
Ceil(x) == (x.t + 9) \div 10

\* how many of len selected events a loop returns that pushes and then breaks on
\* `out.length >= limit`: the comparison is false for NaN
PushThenBreak(len, limit) ==
    IF limit.nan THEN len ELSE Min(len, Max(1, Ceil(limit)))

\* how many of len selected events a loop returns that runs while
\* `out.length < limit`
WhileBelow(len, limit) ==
    IF limit.nan THEN 0 ELSE Min(len, Max(0, Ceil(limit)))

\* part_001: Math.min(500, Math.max(1, Number(req.query.limit || 200)))
DiskLimitOf(q) == MathMin(Num(MAX_LIMIT), MathMax(Num(1), NumberOr(q, DEFAULT_LIMIT)))

\* part_001: what GET /copier/events answers for the limit string q
DiskPollOutOf(group, slaveId, since, q) ==
    LET sel == SelectSeq(copier.events,
                         LAMBDA ev : ev.group = group /\ ~(ev.id <= since)
                                     /\ ~Has(ev.acks, slaveId))
    IN  SubSeq(sel, 1, PushThenBreak(Len(sel), DiskLimitOf(q)))

\* server.js: Math.max(1, Math.min(500, Number.isFinite(limitRaw) ? limitRaw : 200))
MemLimitOf(q) ==
    LET limitRaw == NumberOr(q, DEFAULT_LIMIT)
    IN  MathMax(Num(1), MathMin(Num(MAX_LIMIT),
                                IF limitRaw.nan THEN Num(DEFAULT_LIMIT) ELSE limitRaw))

\* server.js: what GET /copier/events answers for the limit string q
MemPollOutOf(group, slaveId, since, q) ==
    LET effSince == MemEffSince(group, slaveId, since)
        sel == SelectSeq(groupEvents[group], LAMBDA ev : ~(ev.id <= effSince))
        out == SubSeq(sel, 1, WhileBelow(Len(sel), MemLimitOf(q)))
    IN  [i \in 1..Len(out) |-> MemWire(out[i])]

\* part_000: Math.min(Number(req.query.limit || 200), 500)
UidLimitOf(q) == MathMin(NumberOr(q, DEFAULT_LIMIT), Num(MAX_LIMIT))

\* part_000: what GET /copier/events answers for the limit string q
UidPollOutOf(group, slaveId, since, q) ==
    LET lastAck == GetOr(copierLastAckBySlave,
                         slaveKey(GroupOrG1(group), SlaveOrS01(slaveId)), 0)
        sel == SelectSeq(copierEvents,
                         LAMBDA ev : ev.group = GroupOrG1(group) /\ ~(ev.event_id <= since)
                                     /\ ~(ev.event_id <= lastAck))
    IN  SubSeq(sel, 1, PushThenBreak(Len(sel), UidLimitOf(q)))

----------------------------------------------------------------------------
(* The programs *)

\* time passes: nowMs() and Date.now() answer a later day from here on
Tick ==
    /\ now < world.ticks * TickDays
    /\ now' = now + TickDays
    /\ UNCHANGED <<server, diskVars, memVars, uidVars, mvp, files, clients, world, drawn, saving, client>>

\* the state after the process has started, in a run of ws
InitIn(ws) ==
    /\ server \in {"disk", "mem", "uid", "mvp"}
    /\ world \in ws
    /\ now = 0
    /\ copier = [nextId |-> 1, events |-> <<>>, lastMasterEquityByGroup |-> EmptyMap]
    /\ slaves = EmptyMap
    /\ nextEventId = 1
    /\ groupEvents = [g \in Groups |-> <<>>]
    /\ seenEventKey = EmptyMap
    /\ slaveLastAck = EmptyMap
    /\ groupSlaves = [g \in Groups |-> {}]
    /\ copierNextEventId = 1
    /\ copierEvents = <<>>
    /\ copierLastAckBySlave = EmptyMap
    /\ copierUidState = EmptyMap
    /\ mvp = [nextEventId |-> 1, events |-> <<>>]
    /\ files = [copier |-> <<>>, slaves |-> <<>>,
                clients |-> IF server = "mem" THEN <<ClientsByKeyAtStart>>
                            ELSE writeJsonSafe(ClientsAtStart),
                copier_tmp |-> <<>>, slaves_tmp |-> <<>>, clients_tmp |-> <<>>]
    /\ clients = ClientsAtStart
    /\ saving = <<>>
    /\ drawn = 0
    /\ clientsByKey = IF server = "mem" THEN loadClients(files.clients) ELSE EmptyMap
    /\ client = [reg |-> {}, owed |-> {}, got |-> {}, sent |-> {}, made |-> {}]

Init == InitIn(Worlds)

\* only part_001 reads master_equity
PlainBodies(bs) == {[e EXCEPT !.master_equity = 0] : e \in bs}

NextDisk ==
    \/ \E e \in world.bodies \cup BadBodies : DiskPush(e) /\ UNCHANGED client
    \/ \E c \in world.slaves \cup {NoSlaveId} : DiskRegister(c[1], c[2]) /\ UNCHANGED client
    \/ \E c \in world.slaves \cup {NoSlaveId} : DiskPoll(c[1], c[2]) /\ UNCHANGED client
    \/ \E c \in world.slaves, id \in AckIds, st \in world.statuses :
           DiskAck(c[1], c[2], id, st) /\ UNCHANGED client

NextMem ==
    \/ \E e \in PlainBodies(world.bodies \cup BadBodies) : MemPush(e) /\ UNCHANGED client
    \/ \E r \in SlaveRequests(world.slaves) : MemRegister(r) /\ UNCHANGED client
    \/ \E r \in SlaveRequests(world.slaves) : MemPoll(r) /\ UNCHANGED client
    \/ \E r \in SlaveRequests(world.slaves), st \in world.statuses :
           \E id \in IF validateCopierSlave(r.key, r.group, r.slaveId) = 200
                      THEN AckIds ELSE {1} :
               MemAck(r, id, st) /\ UNCHANGED client
    \/ \E b \in world.upsert, how \in world.saves :
           AdminUpsert(b, how) /\ UNCHANGED client
    \/ \E b \in world.extend, how \in world.saves :
           AdminExtend(b, how) /\ UNCHANGED client
    \/ world.upsert # {} /\ AdminReload /\ UNCHANGED client

NextUid ==
    \/ \E e \in PlainBodies(world.bodies \cup BadBodies) : UidPush(e) /\ UNCHANGED client
    \/ \E c \in world.slaves : UidPoll(c[1], c[2]) /\ UNCHANGED client
    \/ \E c \in world.slaves, id \in AckIds : UidAck(c[1], c[2], id) /\ UNCHANGED client

NextMvp ==
    \/ \E e \in PlainBodies(world.bodies \cup BadBodies) : MvpPush(e) /\ UNCHANGED client
    \/ \E c \in world.slaves : MvpPoll(c[1]) /\ UNCHANGED client

Next == NextDisk \/ NextMem \/ NextUid \/ NextMvp \/ Tick

Spec == Init /\ [][Next]_vars

\* each server alone
InitDisk == Init /\ server = "disk"
InitMem == Init /\ server = "mem"
InitUid == Init /\ server = "uid"
SpecDisk == InitDisk /\ [][NextDisk \/ Tick]_vars
SpecMem == InitMem /\ [][NextMem \/ Tick]_vars
SpecUid == InitUid /\ [][NextUid \/ Tick]_vars
InitMvp == Init /\ server = "mvp"
SpecMvp == InitMvp /\ [][NextMvp \/ Tick]_vars

\* part_001 with file writes that can fail and with restarts
NextFile ==
    \/ NextDisk
    \/ \E e \in world.bodies, how \in FailPoints :
           DiskPushFail(e, how) /\ UNCHANGED client
    \/ \E c \in world.slaves, how \in FailPoints :
           DiskSeenFail(c[1], c[2], how) /\ UNCHANGED client
    \/ \E c \in world.slaves, id \in AckIds, st \in world.statuses, at \in 1..3 :
           \E how \in FailPoints :
               DiskAckFail(c[1], c[2], id, st, at, how) /\ UNCHANGED client
    \/ DiskRestart /\ UNCHANGED client
    \/ Tick

\* these runs are those of the world with a single request body
InitFile == InitDisk /\ Cardinality(world.bodies) = 1 /\ world.upsert = {}
SpecFile == InitFile /\ [][NextFile]_vars

\* part_001 with its saves step by step and a process that can stop at every
\* step: a handler changes copier or slaves, writeJsonSafe writes the temporary
\* file and renames it, and the process is started again at any moment.  No
\* other handler runs while a save is under way.
NextCrash ==
    \/ \E e \in world.bodies : DiskPushSaving(e) /\ UNCHANGED client
    \/ \E c \in world.slaves : DiskSeenSaving(c[1], c[2]) /\ UNCHANGED client
    \/ \E f \in {"copier", "slaves"} : SaveWrite(f) /\ UNCHANGED client
    \/ \E f \in {"copier", "slaves"} : SaveRename(f) /\ UNCHANGED client
    \/ DiskRestart /\ UNCHANGED client
    \/ Tick

\* these runs are those of the worlds with a single slave
InitCrash == InitDisk /\ Cardinality(world.slaves) = 1 /\ world.upsert = {}
SpecCrash == InitCrash /\ [][NextCrash]_vars

\* part_001 with slaves that send an x-api-key header
NextKey ==
    \/ NextDisk
    \/ \E k \in ApiKeys, c \in world.slaves \cup {NoSlaveId} :
           DiskRegisterKey(k, c[1], c[2]) /\ UNCHANGED client
    \/ \E k \in ApiKeys, c \in world.slaves \cup {NoSlaveId} :
           DiskPollKey(k, c[1], c[2]) /\ UNCHANGED client
    \/ \E k \in ApiKeys, c \in world.slaves, id \in AckIds, st \in world.statuses :
           DiskAckKey(k, c[1], c[2], id, st) /\ UNCHANGED client
    \/ \E k \in ApiKeys : AdminResetBind(k) /\ UNCHANGED client
    \/ \E b \in Adds : DiskAdminAdd(b) /\ UNCHANGED client
    \/ \E k \in ApiKeys, enabled \in BOOLEAN : DiskAdminDisable(k, enabled) /\ UNCHANGED client
    \/ \E k \in ApiKeys : DiskAdminExtend(k, "M1") /\ UNCHANGED client
    \/ \E k \in ApiKeys : DiskAdminDelete(k) /\ UNCHANGED client
    \/ Tick

\* the runs with x-api-key headers, all with one position and an operator who
\* changes the subscriptions of part_001: two slaves of one group and one
\* subscription added, and one slave with the clock advancing and MaxAdds
\* subscriptions added
KeyWorlds ==
    { [slaves |-> {<<G, A>>, <<G, B>>},
       bodies |-> {Body(G, "OPEN", 0)},
       statuses |-> {"DONE"}, ticks |-> 0,
       upsert |-> {}, extend |-> {}, saves |-> {}, adds |-> 1],
      [slaves |-> {<<G, A>>},
       bodies |-> {Body(G, "OPEN", 0)},
       statuses |-> {"DONE"}, ticks |-> MaxTicks,
       upsert |-> {}, extend |-> {}, saves |-> {}, adds |-> MaxAdds] }

InitKey == InitIn(KeyWorlds) /\ server = "disk"
SpecKey == InitKey /\ [][NextKey]_vars

\* how many events beyond the largest batch a filled log holds
Over == 2

\* the sizes of the logs that polls with a limit are made against
FillSizes == {1, MAX_LIMIT - 1, MAX_LIMIT, MAX_LIMIT + Over}

\* the i-th position the master has opened in group G
FillBody(i) ==
    [Body(G, "OPEN", 0) EXCEPT !.master_ticket = i, !.uid = <<"U", ToString(i)>>]

\* copier of part_001 after the pushes of n positions
DiskFilled(n) ==
    [nextId |-> n + 1, lastMasterEquityByGroup |-> EmptyMap,
     events |-> [i \in 1..n |->
                    [id |-> i, group |-> G, type |-> "OPEN", ts |-> 0,
                     master_ticket |-> i, open_time |-> FillBody(i).open_time,
                     symbol |-> FillBody(i).symbol, master_equity |-> 0,
                     acks |-> EmptyMap]]]

\* the array of group G in server.js after the pushes of n positions
MemFilled(n) ==
    [i \in 1..n |->
        LET ev0 == normalizeEvent(FillBody(i))
        IN  [id |-> i, group |-> ev0.group, type |-> ev0.type, ts |-> 0,
             master_ticket |-> ev0.master_ticket, open_time |-> ev0.open_time,
             uid |-> MemUid(ev0), symbol |-> ev0.symbol, ack |-> EmptyMap,
             _key |-> MemKey(ev0)]]

\* seenEventKey of server.js after the pushes of n positions
MemFilledSeen(n) ==
    [k \in {MemFilled(n)[i]._key : i \in 1..n} |->
        CHOOSE i \in 1..n : MemFilled(n)[i]._key = k]

\* copierEvents of part_000 after the pushes of n positions
UidFilled(n) ==
    [i \in 1..n |->
        [event_id |-> i, group |-> G, type |-> "OPEN", uid |-> FillBody(i).uid,
         master_ticket |-> i, open_time |-> FillBody(i).open_time,
         symbol |-> FillBody(i).symbol, ts |-> 0]]

\* copierUidState of part_000 after the pushes of n positions
UidFilledState(n) ==
    [k \in {ukeyOf(G, FillBody(i).uid) : i \in 1..n} |-> UidAccept("OPEN")]

\* a server whose log holds the OPEN events of n positions: the caps of the
\* source (20000 and 50000 events) are far above these sizes, and no request of
\* these runs applies a cap
InitLimit ==
    /\ server \in {"disk", "mem", "uid"}
    /\ world \in Worlds
    /\ now = 0
    /\ \E n \in FillSizes :
          /\ copier = IF server = "disk" THEN DiskFilled(n)
                      ELSE [nextId |-> 1, events |-> <<>>,
                            lastMasterEquityByGroup |-> EmptyMap]
          /\ files = [copier |-> IF server = "disk" THEN writeJsonSafe(DiskFilled(n))
                                 ELSE <<>>,
                      slaves |-> <<>>,
                      clients |-> IF server = "mem" THEN <<ClientsByKeyAtStart>>
                                  ELSE writeJsonSafe(ClientsAtStart),
                      copier_tmp |-> <<>>, slaves_tmp |-> <<>>, clients_tmp |-> <<>>]
          /\ nextEventId = IF server = "mem" THEN n + 1 ELSE 1
          /\ groupEvents = [g \in Groups |->
                                IF server = "mem" /\ g = G THEN MemFilled(n) ELSE <<>>]
          /\ seenEventKey = IF server = "mem" THEN MemFilledSeen(n) ELSE EmptyMap
          /\ copierNextEventId = IF server = "uid" THEN n + 1 ELSE 1
          /\ copierEvents = IF server = "uid" THEN UidFilled(n) ELSE <<>>
          /\ copierUidState = IF server = "uid" THEN UidFilledState(n) ELSE EmptyMap
    /\ slaves = EmptyMap
    /\ slaveLastAck = EmptyMap
    /\ groupSlaves = [g \in Groups |-> {}]
    /\ clientsByKey = IF server = "mem" THEN ClientsByKeyAtStart ELSE EmptyMap
    /\ copierLastAckBySlave = EmptyMap
    /\ mvp = [nextEventId |-> 1, events |-> <<>>]
    /\ drawn = 0
    /\ clients = ClientsAtStart
    /\ saving = <<>>
    /\ client = [reg |-> {}, owed |-> {}, got |-> {}, sent |-> {}, made |-> {}]

\* the slaves register and poll a filled server
NextLimit ==
    \/ \E c \in world.slaves : DiskRegister(c[1], c[2]) /\ UNCHANGED client
    \/ \E c \in world.slaves : DiskPoll(c[1], c[2]) /\ UNCHANGED client
    \/ \E r \in SlaveRequests(world.slaves) : MemRegister(r) /\ UNCHANGED client
    \/ \E r \in SlaveRequests(world.slaves) : MemPoll(r) /\ UNCHANGED client
    \/ \E c \in world.slaves : UidPoll(c[1], c[2]) /\ UNCHANGED client
    \/ Tick

SpecLimit == InitLimit /\ [][NextLimit]_vars

----------------------------------------------------------------------------
(* The slaves as programs of their own, for the delivery guarantee: a slave    *)
(* polls with the largest id it has received as its cursor and acknowledges    *)
(* only events it has received.  These runs are against part_001 and           *)
(* server.js; the clock stands still and a push is made only while the log is  *)
(* below its cap, so neither the size nor the age eviction fires.              *)

\* the request a slave of server.js sends: its own subscription's api key
ClientRequest(c) == [key |-> c, group |-> c[1], slaveId |-> c[2]]

\* the cursor of slave c: the largest id a poll has returned to it
ClientCursor(c) ==
    LET ids == {x[2] : x \in {y \in client.got : y[1] = c}}
    IN  IF ids = {} THEN 0 ELSE CHOOSE m \in ids : \A i \in ids : i <= m

\* the ids GET /copier/events returns to slave c
ClientPollIds(c, limit) ==
    IF server = "disk"
    THEN {ev.id : ev \in Range(DiskPollOut(c[1], c[2], ClientCursor(c), limit))}
    ELSE {w.id : w \in Range(MemPollOut(c[1], c[2], ClientCursor(c), limit))}

\* the master pushes; the event is owed to the slaves registered in its group
ClientPush(e) ==
    /\ \/ DiskPush(e) /\ (DiskIsNew(e) => Len(copier.events) < COPIER_KEEP)
       \/ MemPush(e) /\ (MemIsNew(e) => Len(groupEvents[e.group]) < MEM_MAX)
    /\ LET new == IF server = "disk" THEN DiskIsNew(e) ELSE MemIsNew(e)
           id == IF server = "disk" THEN DiskNewId ELSE MemNewId
       IN  client' = [client EXCEPT !.owed =
                         IF new THEN @ \cup {<<c, id>> : c \in {d \in client.reg : d[1] = e.group}}
                         ELSE @]

\* a slave registers
ClientRegister(c) ==
    /\ DiskRegister(c[1], c[2]) \/ MemRegister(ClientRequest(c))
    /\ client' = [client EXCEPT !.reg = @ \cup {c}]

\* a slave polls with its cursor and receives what the server returns
ClientPoll(c, limit) ==
    /\ c \in world.slaves
    /\ DiskPoll(c[1], c[2]) \/ MemPoll(ClientRequest(c))
    /\ client' = [client EXCEPT !.reg = @ \cup {c},
                                !.got = @ \cup {<<c, i>> : i \in ClientPollIds(c, limit)}]

\* a slave acknowledges an event it has received
ClientAck(c, id, status) ==
    /\ <<c, id>> \in client.got
    /\ DiskAck(c[1], c[2], id, status) \/ MemAck(ClientRequest(c), id, status)
    /\ client' = [client EXCEPT !.reg = @ \cup {c}]

NextClient ==
    \/ \E e \in PlainBodies(world.bodies) : ClientPush(e)
    \/ \E c \in world.slaves : ClientRegister(c)
    \/ \E c \in world.slaves, limit \in Limits : ClientPoll(c, limit)
    \/ \E c \in world.slaves, id \in AckIds, st \in world.statuses : ClientAck(c, id, st)

InitClient == Init /\ server \in {"disk", "mem"}

\* every slave keeps polling
SpecClient ==
    /\ InitClient
    /\ [][NextClient]_vars
    /\ \A c \in Slaves : WF_vars(\E limit \in Limits : ClientPoll(c, limit))

----------------------------------------------------------------------------
(* The master as a program of its own, for concurrent requests: it sends a     *)
(* push and its retry together, and both are in flight while the slaves poll   *)
(* and acknowledge.  Node runs a handler that has no await from its first      *)
(* statement to its response before it takes the next request, so the server   *)
(* handles the requests in flight one at a time, in any order.                 *)

\* the master sends body e twice: the original request and its retry
MasterSend(e) ==
    /\ \A x \in client.sent \cup client.made : x[1] # e
    /\ client' = [client EXCEPT !.sent = @ \cup {<<e, 1>>, <<e, 2>>}]
    /\ UNCHANGED <<server, now, diskVars, memVars, uidVars, mvp, files, clients, world, drawn, saving>>

\* the id POST /copier/push answers body e with
MasterPushId(e) == IF server = "disk" THEN DiskPushResp(e).id ELSE MemPushResp(e).id

\* the server takes one of the pushes in flight and runs its handler
MasterHandled(e, k) ==
    /\ <<e, k>> \in client.sent
    /\ DiskPush(e) \/ MemPush(e)
    /\ client' = [client EXCEPT !.sent = @ \ {<<e, k>>},
                                !.made = @ \cup {<<e, MasterPushId(e)>>}]

NextMaster ==
    \/ \E e \in PlainBodies(world.bodies) : MasterSend(e)
    \/ \E e \in PlainBodies(world.bodies), k \in 1..2 : MasterHandled(e, k)
    \/ \E c \in world.slaves : ClientRegister(c)
    \/ \E c \in world.slaves, limit \in Limits : ClientPoll(c, limit)
    \/ \E c \in world.slaves, id \in AckIds, st \in world.statuses : ClientAck(c, id, st)
    \/ Tick

\* these runs are those of the worlds with at most two request bodies
InitMaster == InitClient /\ Cardinality(world.bodies) <= 2 /\ world.upsert = {}
SpecMaster == InitMaster /\ [][NextMaster]_vars

----------------------------------------------------------------------------
(* Properties *)

\* C1 (idempotent push, part_001 and server.js): when a valid push is accepted and
\* assigned id N, the identical push sent again right afterwards is answered with
\* the same id N and the duplicate flag, appends no event and does not advance
\* the next-id counter.
C1_IdempotentPush ==
    [][ /\ (server = "disk" /\ copier'.nextId # copier.nextId) =>
              \A e \in world.bodies :
                  (DiskPush(e) /\ DiskIsNew(e)) =>
                      /\ DiskPushResp(e)' = [code |-> 200, id |-> DiskNewId, dup |-> TRUE]
                      /\ DiskPushed(e)' = copier'
        /\ (server = "mem" /\ nextEventId' # nextEventId) =>
              \A e \in PlainBodies(world.bodies) :
                  (MemPush(e) /\ MemIsNew(e)) =>
                      /\ MemPushResp(e)' = [code |-> 200, id |-> MemNewId, dup |-> TRUE]
                      /\ MemPushed(e)' = [nextEventId |-> nextEventId',
                                          groupEvents |-> groupEvents',
                                          seenEventKey |-> seenEventKey']
      ]_vars

\* an accepted push was assigned id 1 and the identical push is now answered with
\* id 1 and the duplicate flag
C1_Witness ==
    /\ server = "disk"
    /\ copier.nextId = 2
    /\ \E e \in world.bodies :
          /\ DiskPushResp(e) = [code |-> 200, id |-> 1, dup |-> TRUE]
          /\ DiskPushed(e) = copier

\* the event of the group's array that GET /copier/events sent as w
MemStored(group, w) ==
    CHOOSE ev \in Range(groupEvents[group]) : MemWire(ev) = w

\* C2 (poll filtering, all three servers): in every reachable state, for every
\* slave, group and cursor S, the events that poll(group, slave, since = S)
\* returns hold no event with id <= S and no event that slave has acknowledged
\* already (an ack entry of any status in part_001 and server.js, an id up to the
\* slave's last acknowledged id in part_000), also when S is a stale cursor.
C2_PollFiltering ==
    \A c \in world.slaves, S \in Cursors, L \in Limits :
        /\ server = "disk" =>
              \A ev \in Range(DiskPollOut(c[1], c[2], S, L)) :
                  ev.id > S /\ ~Has(ev.acks, c[2])
        /\ server = "mem" =>
              \A w \in Range(MemPollOut(c[1], c[2], S, L)) :
                  w.id > S /\ ~Has(MemStored(c[1], w).ack, c[2])
        /\ server = "uid" =>
              \A ev \in Range(UidPollOut(c[1], c[2], S, L)) :
                  /\ ev.event_id > S
                  /\ ev.event_id > GetOr(copierLastAckBySlave, slaveKey(c[1], c[2]), 0)

\* a slave polls with the stale cursor 0 while the log holds an event it has
\* acknowledged with ERR and a later one: the poll returns the later one only
C2_Witness ==
    /\ server = "mem"
    /\ \E c \in world.slaves :
          /\ \E ev \in Range(groupEvents[c[1]]) :
                Has(ev.ack, c[2]) /\ ev.ack[c[2]].status = "ERR"
          /\ MemPollOut(c[1], c[2], 0, 2) # <<>>

\* the slaves of the run that the registry all holds in group
DiskKnown(all, group) ==
    {c[2] : c \in {d \in world.slaves : d[1] = group /\ Has(all, slaveKey(d[1], d[2]))}}

\* C3 (GC safety, part_001): the cleanup of POST /copier/ack removes an event from
\* a group's log only if the group has a known slave and every slave known in the
\* group has an ack entry with a terminal status on the event.
C3_GcSafety ==
    [][ (server = "disk" /\ Len(copier'.events) < Len(copier.events)) =>
          \A c \in world.slaves, id \in AckIds, st \in world.statuses :
              DiskAck(c[1], c[2], id, st) =>
                  LET rec == DiskRecordAck(copier, c[1], c[2], id, st).events
                      left == {x.id : x \in Range(copier'.events)}
                      known == DiskKnown(slaves', c[1])
                  IN  \A ev \in Range(rec) :
                          (ev.id \notin left) =>
                              /\ known # {}
                              /\ \A sid \in known :
                                    /\ Has(ev.acks, sid)
                                    /\ ev.acks[sid].status \in Statuses
      ]_vars

\* C4 (late slave, part_001): event 1 is in the log of group G, slave A is the
\* only slave seen so far and its poll with since = 0 returns event 1; when A
\* acknowledges event 1 with DONE, the poll of the never seen slave B with
\* since = 0 still returns event 1.
C4_LateSlave ==
    [][ ( /\ server = "disk"
          /\ DOMAIN slaves = {slaveKey(G, A)}
          /\ 1 \in {ev.id : ev \in Range(DiskPollOut(G, A, 0, 1))}
          /\ DiskAck(G, A, 1, "DONE") ) =>
            (1 \in {ev.id : ev \in Range(DiskPollOut(G, B, 0, 1))})'
      ]_vars

\* C5 (at-least-once delivery, part_001 and server.js): an event appended while a
\* slave is registered in its group is eventually returned to that slave by a
\* poll, when the slave keeps polling, moves its cursor and acknowledges only by
\* what it received, and no size or age eviction fires.  (owed and got only grow:
\* every owed event is received in the end exactly if, again and again, all of
\* owed is in got.)
C5_AtLeastOnce ==
    []<>(client.owed \subseteq client.got)

\* the type of the last event of the log for the position (group, uid), "" when
\* the log holds none
UidLastType(group, uid) ==
    LET hit == {i \in 1..Len(copierEvents) :
                    copierEvents[i].group = group /\ copierEvents[i].uid = uid}
    IN  IF hit = {} THEN ""
        ELSE copierEvents[CHOOSE j \in hit : \A h \in hit : j >= h].type

\* C6 (duplicate OPEN, part_000): while the last accepted event of a position is an
\* OPEN, a further OPEN for the same position is answered as a duplicate with
\* reason OPEN_ALREADY and creates no event.
C6_OpenAlready ==
    server = "uid" =>
        \A e \in PlainBodies(world.bodies) :
            (e.type = "OPEN" /\ UidLastType(e.group, e.uid) = "OPEN") =>
                /\ UidPushResp(e) = [code |-> 200, duplicated |-> TRUE,
                                     reason |-> "OPEN_ALREADY"]
                /\ UidPushed(e).copierEvents = copierEvents

\* C7 (CLOSE without OPEN, part_000 and server.js): a CLOSE for a position that has
\* never had an accepted OPEN is answered as a duplicate (in part_000 with reason
\* CLOSE_WITHOUT_OPEN), creates no event and leaves the log as it is.  Before the
\* clock has moved nothing has been forgotten: the position has had an accepted
\* OPEN exactly if copierUidState, or seenEventKey, holds it.
C7_CloseWithoutOpen ==
    \A e \in PlainBodies(world.bodies) :
        (e.type = "CLOSE" /\ now = 0) =>
            /\ (server = "uid" /\ ~Has(copierUidState, ukeyOf(e.group, e.uid))) =>
                  /\ UidPushResp(e) = [code |-> 200, duplicated |-> TRUE,
                                       reason |-> "CLOSE_WITHOUT_OPEN"]
                  /\ UidPushed(e).copierEvents = copierEvents
            /\ (server = "mem"
                /\ ~Has(seenEventKey, MemKey([normalizeEvent(e) EXCEPT !.type = "OPEN"]))) =>
                  /\ MemPushResp(e).dup
                  /\ MemPushed(e).groupEvents = groupEvents

\* C8 (duplicate CLOSE, part_000): after OPEN and CLOSE of a position were accepted,
\* a further CLOSE is answered as a duplicate with reason CLOSE_ALREADY, with no
\* other reason, and creates no event.
C8_CloseAlready ==
    server = "uid" =>
        \A e \in PlainBodies(world.bodies) :
            (e.type = "CLOSE" /\ UidState(ukeyOf(e.group, e.uid)).lastType = "CLOSE") =>
                /\ UidPushResp(e) = [code |-> 200, duplicated |-> TRUE,
                                     reason |-> "CLOSE_ALREADY"]
                /\ UidPushed(e).copierEvents = copierEvents

\* C9 (ack monotonicity, part_001 and server.js): after ack(eventId = E) the
\* slave's lastAckId is at least E, and no push, poll, registerSlave or ack ever
\* lowers or drops a slave's lastAckId.
C9_AckMonotonic ==
    [][ /\ server = "disk" =>
              /\ \A k \in DOMAIN slaves :
                    Has(slaves', k) /\ slaves'[k].lastAckId >= slaves[k].lastAckId
              /\ (slaves' # slaves) =>
                    \A c \in world.slaves, id \in AckIds, st \in world.statuses :
                        DiskAck(c[1], c[2], id, st) =>
                            slaves'[slaveKey(c[1], c[2])].lastAckId >= id
        /\ server = "mem" =>
              /\ \A k \in DOMAIN slaveLastAck :
                    Has(slaveLastAck', k) /\ slaveLastAck'[k] >= slaveLastAck[k]
              /\ (slaveLastAck' # slaveLastAck) =>
                    \A c \in world.slaves, id \in AckIds, st \in world.statuses :
                        MemAck(ClientRequest(c), id, st) =>
                            slaveLastAck'[slaveKey(c[1], c[2])] >= id
      ]_vars

\* a slave's lastAckId is above the id of an event of the log that it has
\* acknowledged, and it is registered
C9_Witness ==
    /\ server = "disk"
    /\ \E c \in world.slaves, i \in 1..Len(copier.events) :
          /\ Has(copier.events[i].acks, c[2])
          /\ Has(slaves, slaveKey(c[1], c[2]))
          /\ slaves[slaveKey(c[1], c[2])].lastAckId > copier.events[i].id

\* the ids of a log are strictly increasing
Increasing(ids) == \A i, j \in 1..Len(ids) : i < j => ids[i] < ids[j]

\* C10 (ids unique and never reused, all three servers): an event that a step
\* appends gets the id of the counter, which never goes down and is past that id
\* afterwards, so the id is greater than every id assigned before; and every
\* group's log is ordered by strictly increasing id.
C10_FreshIds ==
    [][ /\ server = "disk" =>
              /\ copier'.nextId >= copier.nextId
              /\ \A ev \in Range(copier'.events) :
                    /\ ev.id < copier'.nextId
                    /\ (ev.id \notin {x.id : x \in Range(copier.events)}) =>
                           ev.id >= copier.nextId
              /\ \A g \in Groups :
                    Increasing([i \in 1..Len(SelectSeq(copier'.events,
                                                       LAMBDA x : x.group = g)) |->
                                SelectSeq(copier'.events, LAMBDA x : x.group = g)[i].id])
        /\ server = "mem" =>
              /\ nextEventId' >= nextEventId
              /\ \A g \in Groups :
                    /\ \A ev \in Range(groupEvents'[g]) :
                          /\ ev.id < nextEventId'
                          /\ (ev.id \notin {x.id : x \in Range(groupEvents[g])}) =>
                                 ev.id >= nextEventId
                    /\ Increasing([i \in 1..Len(groupEvents'[g]) |-> groupEvents'[g][i].id])
        /\ server = "uid" =>
              /\ copierNextEventId' >= copierNextEventId
              /\ \A ev \in Range(copierEvents') :
                    /\ ev.event_id < copierNextEventId'
                    /\ (ev.event_id \notin {x.event_id : x \in Range(copierEvents)}) =>
                           ev.event_id >= copierNextEventId
              /\ Increasing([i \in 1..Len(copierEvents') |-> copierEvents'[i].event_id])
      ]_vars

\* the events with the ids below MaxId have left the log of part_001 (by the ack
\* cleanup or the cap) and the event appended last has id MaxId
C10_Witness ==
    /\ server = "disk"
    /\ copier.nextId = MaxId + 1
    /\ Len(copier.events) = 1
    /\ copier.events[1].id = MaxId

\* C11 (validation failure mutates nothing, all four servers): a push that is
\* refused with 400 because a required field is missing or the type is bad leaves
\* the event log, the next-id counter, the ticket states, the idempotency index
\* and the last-known equity exactly as they were: no id is consumed.
C11_ValidationFrame ==
    [][ /\ \A e \in world.bodies \cup BadBodies :
              (DiskPush(e) /\ DiskPushResp(e).code = 400) => UNCHANGED copier
        /\ \A e \in PlainBodies(world.bodies \cup BadBodies) :
              /\ (MemPush(e) /\ MemPushResp(e).code = 400) =>
                     UNCHANGED <<nextEventId, groupEvents, seenEventKey>>
              /\ (UidPush(e) /\ UidPushResp(e).code = 400) =>
                     UNCHANGED <<copierNextEventId, copierEvents, copierUidState>>
              /\ (MvpPush(e) /\ MvpPushResp(e).code = 400) => UNCHANGED mvp
      ]_vars

\* the result the poll contract describes: of the events of log that belong to the
\* group, have an id above since and satisfy pending, the first limit ones
ExactPoll(log, pending(_), since, limit) ==
    LET due == SelectSeq(log, LAMBDA ev : ev.id > since /\ pending(ev))
    IN  SubSeq(due, 1, Min(limit, Len(due)))

\* C12 (poll result is exact, part_001 and server.js, where the log records who
\* acknowledged which event): wherever a slave may poll from, the answer holds, in
\* ascending id order, exactly the first min(limit, n) of the n events of the
\* group's log with id > since that carry no ack entry of this slave; no such
\* event is skipped because the slave acknowledged another id.
C12_PollExact ==
    \A c \in world.slaves, S \in Cursors, L \in Limits :
        /\ server = "disk" =>
              /\ DiskPollOut(c[1], c[2], S, L) =
                     ExactPoll(copier.events,
                               LAMBDA ev : ev.group = c[1] /\ ~Has(ev.acks, c[2]), S, L)
              /\ Increasing([i \in 1..Len(DiskPollOut(c[1], c[2], S, L)) |->
                                DiskPollOut(c[1], c[2], S, L)[i].id])
        /\ (server = "mem" /\ validateCopierSlave(c, c[1], c[2]) = 200) =>
              LET exact == ExactPoll(groupEvents[c[1]],
                                     LAMBDA ev : ~Has(ev.ack, c[2]), S, L)
              IN  /\ MemPollOut(c[1], c[2], S, L) =
                         [i \in 1..Len(exact) |-> MemWire(exact[i])]
                  /\ Increasing([i \in 1..Len(exact) |-> exact[i].id])

\* C13 (ack of an unknown event, part_001 and server.js): an ack whose event_id
\* matches no event in the group's log is answered as success, adds no ack entry
\* to any event, and removes no event that was not already ack-complete (an event
\* of the group on which every known slave of the group has an ack entry).
\* Stated of the log the handler leaves, in every reachable state.
C13_AckUnknown ==
    /\ server = "disk" =>
          \A c \in world.slaves, id \in AckIds, st \in world.statuses :
              DiskFindEvent(copier.events, c[1], id) = 0 =>
                  LET after == DiskAckCleaned(c[1], c[2], id, st)
                  IN  /\ DiskAckResp(c[1], c[2], id, st) = [code |-> 200]
                      /\ Range(after.events) \subseteq Range(copier.events)
                      /\ \A ev \in Range(copier.events) \ Range(after.events) :
                            /\ ev.group = c[1]
                            /\ DiskKnown(slaves, c[1]) # {}
                            /\ \A s \in DiskKnown(slaves, c[1]) : Has(ev.acks, s)
    /\ server = "mem" =>
          \A r \in SlaveRequests(world.slaves), id \in AckIds, st \in world.statuses :
              (validateCopierSlave(r.key, r.group, r.slaveId) = 200
               /\ \A ev \in Range(groupEvents[r.group]) : ev.id # id) =>
                  /\ MemAckResp(r, id) = [code |-> 200]
                  /\ MemRecordAck(groupEvents[r.group], r.slaveId, id, st)
                        = groupEvents[r.group]

\* part_001 holds an event and a slave whose lastAckId is an id that was never
\* assigned: the slave acknowledged an event that does not exist
C13_Witness ==
    /\ server = "disk"
    /\ copier.events # <<>>
    /\ \E c \in world.slaves :
          /\ Has(slaves, slaveKey(c[1], c[2]))
          /\ slaves[slaveKey(c[1], c[2])].lastAckId >= copier.nextId

\* C14 (no re-delivery through retries, part_001): once a slave has acknowledged
\* the event created for a (group, type, master_ticket, open_time), the identical
\* push sent again creates no new event for that position.  (A new event would
\* start with an empty ack map and an id above every cursor, so the slave's next
\* poll would return it.)  Stated for the retry that follows the ack at once.
C14_NoRedelivery ==
    [][ server = "disk" =>
          \A c \in world.slaves, id \in AckIds, st \in world.statuses :
              (DiskAck(c[1], c[2], id, st)
               /\ DiskFindEvent(copier.events, c[1], id) # 0) =>
                  LET ev == copier.events[DiskFindEvent(copier.events, c[1], id)]
                  IN  \A e \in world.bodies :
                          (/\ e.group = ev.group
                           /\ e.type = ev.type
                           /\ e.master_ticket = ev.master_ticket
                           /\ e.open_time = ev.open_time) => ~DiskIsNew(e)'
      ]_vars

\* part_001 has removed no event yet: the log is every event ever created
DiskWhole == Len(copier.events) = copier.nextId - 1

\* server.js has evicted no event yet
MemWhole == Len(groupEvents[G]) + Len(groupEvents[GA]) = nextEventId - 1

\* the type of the last OPEN or CLOSE in log that satisfies same, "" when there is none
LastTransition(log, same(_)) ==
    LET hit == {i \in 1..Len(log) : same(log[i]) /\ log[i].type \in {"OPEN", "CLOSE"}}
    IN  IF hit = {} THEN ""
        ELSE log[CHOOSE j \in hit : \A h \in hit : j >= h].type

\* the ticket state of the position of push body e as part_001's whole log tells it
DiskTicket(e) ==
    LastTransition(copier.events,
                   LAMBDA x : x.group = e.group /\ x.master_ticket = e.master_ticket
                              /\ x.open_time = e.open_time)

\* the ticket state of the position of push body e as server.js's whole log tells it
MemTicket(e) ==
    LastTransition(groupEvents[e.group], LAMBDA x : x.uid = MemUid(normalizeEvent(e)))

\* C15 (MODIFY while open, all three servers): for every position whose ticket
\* state is OPEN (part_000: copierUidState says open; part_001 and server.js,
\* which keep no ticket state: the last OPEN or CLOSE in the still complete log is
\* an OPEN), a MODIFY push is accepted and answered with a new id, also when a
\* MODIFY for the position was accepted before.
C15_ModifyWhileOpen ==
    /\ server = "disk" =>
          \A e \in world.bodies :
              (e.type = "MODIFY" /\ DiskWhole /\ DiskTicket(e) = "OPEN") => DiskIsNew(e)
    /\ server = "mem" =>
          \A e \in PlainBodies(world.bodies) :
              (e.type = "MODIFY" /\ MemWhole /\ MemTicket(e) = "OPEN") => MemIsNew(e)
    /\ server = "uid" =>
          \A e \in PlainBodies(world.bodies) :
              (e.type = "MODIFY" /\ UidState(ukeyOf(e.group, e.uid)).open) => UidIsNew(e)

\* C16 (MODIFY without an open position, part_001 and server.js): a MODIFY push
\* for a position whose ticket state is NO_EVENT or CLOSED (the still complete log
\* holds no OPEN or CLOSE of it, or the last of them is a CLOSE) is not answered
\* with a new id: it creates no event and consumes no event id.
C16_ModifyWithoutOpen ==
    /\ server = "disk" =>
          \A e \in world.bodies :
              (e.type = "MODIFY" /\ DiskWhole /\ DiskTicket(e) # "OPEN") =>
                  /\ ~DiskIsNew(e)
                  /\ DiskPushed(e) = copier
    /\ server = "mem" =>
          \A e \in PlainBodies(world.bodies) :
              (e.type = "MODIFY" /\ MemWhole /\ MemTicket(e) # "OPEN") =>
                  /\ ~MemIsNew(e)
                  /\ MemPushed(e).nextEventId = nextEventId
                  /\ MemPushed(e).groupEvents = groupEvents

\* C17 (ticket state invariant, part_000): in every reachable state the tracker
\* holds a position open exactly when its last accepted transition was an OPEN
\* (the last event of the position in the log, which drops only its oldest
\* events), and a CLOSE for a position whose last accepted transition is an OPEN
\* is accepted and answered with a new id, whatever time has passed and whatever
\* copierCleanup has removed.
C17_TicketState ==
    server = "uid" =>
        \A e \in PlainBodies(world.bodies) :
            /\ UidLastType(e.group, e.uid) = "OPEN" =>
                   UidState(ukeyOf(e.group, e.uid)).open = TRUE
            /\ UidLastType(e.group, e.uid) = "CLOSE" =>
                   UidState(ukeyOf(e.group, e.uid)).open = FALSE
            /\ (e.type = "CLOSE" /\ UidLastType(e.group, e.uid) = "OPEN") => UidIsNew(e)

\* C18 (a rejected transition changes nothing, part_000): a push that the ticket
\* state machine refuses (answered duplicated with reason OPEN_ALREADY,
\* CLOSE_WITHOUT_OPEN or CLOSE_ALREADY) leaves copierNextEventId, copierEvents
\* and the ticket state of its position (open, lastType, ts) as they were.
C18_RejectedFrame ==
    [][ server = "uid" =>
          \A e \in PlainBodies(world.bodies) :
              (UidPush(e) /\ UidPushResp(e).code = 200 /\ UidPushResp(e).duplicated) =>
                  /\ UNCHANGED <<copierNextEventId, copierEvents>>
                  /\ Has(copierUidState', ukeyOf(e.group, e.uid))
                         = Has(copierUidState, ukeyOf(e.group, e.uid))
                  /\ UidState(ukeyOf(e.group, e.uid))' = UidState(ukeyOf(e.group, e.uid))
      ]_vars

\* an event is in the log and a push is refused by the ticket state machine: the
\* state is the one that push leaves behind
C18_Witness ==
    /\ server = "uid"
    /\ copierEvents # <<>>
    /\ \E e \in PlainBodies(world.bodies) :
          /\ UidPushResp(e).code = 200
          /\ UidPushResp(e).duplicated
          /\ UidPushResp(e).reason = "OPEN_ALREADY"
          /\ UidPushed(e) = [copierNextEventId |-> copierNextEventId,
                             copierUidState |-> copierUidState,
                             copierEvents |-> copierEvents]

\* C19 (reopen after close, part_000): in every reachable state where the last
\* accepted transition of a position is a CLOSE, an OPEN push for it is accepted:
\* it appends an OPEN event whose id is the counter's value, above every id in
\* the log, the counter moves on and the ticket state of the position is open
\* again.
C19_Reopen ==
    server = "uid" =>
        \A e \in PlainBodies(world.bodies) :
            (e.type = "OPEN" /\ UidLastType(e.group, e.uid) = "CLOSE") =>
                /\ UidPushResp(e) = [code |-> 200, duplicated |-> FALSE,
                                     event_id |-> copierNextEventId]
                /\ \A ev \in Range(copierEvents) : ev.event_id < copierNextEventId
                /\ UidPushed(e).copierNextEventId = copierNextEventId + 1
                /\ UidPushed(e).copierEvents # <<>>
                /\ UidPushed(e).copierEvents[Len(UidPushed(e).copierEvents)]
                       = UidNewEvent(e)
                /\ Has(UidPushed(e).copierUidState, ukeyOf(e.group, e.uid))
                /\ UidPushed(e).copierUidState[ukeyOf(e.group, e.uid)].open = TRUE
                /\ UidPushed(e).copierUidState[ukeyOf(e.group, e.uid)].lastType = "OPEN"

\* the log ends with the CLOSE of a position and the OPEN that reopened it
C19_Witness ==
    /\ server = "uid"
    /\ Len(copierEvents) >= 2
    /\ LET n == Len(copierEvents)
       IN  /\ copierEvents[n - 1].type = "CLOSE"
           /\ copierEvents[n].type = "OPEN"
           /\ copierEvents[n].group = copierEvents[n - 1].group
           /\ copierEvents[n].uid = copierEvents[n - 1].uid
           /\ copierEvents[n].event_id > copierEvents[n - 1].event_id
           /\ UidState(ukeyOf(copierEvents[n].group, copierEvents[n].uid)).open = TRUE

\* C20 (ack-complete events are collected, part_001 and server.js): after every
\* accepted ack request, if the group has a known slave, the group's log holds no
\* event on which every known slave of the group has an ack entry, whatever the
\* status of the entries (ERR as well as DONE or SKIP).
C20_AckCompleteCollected ==
    [][ /\ server = "disk" =>
              \A c \in world.slaves, id \in AckIds, st \in world.statuses :
                  (DiskAck(c[1], c[2], id, st)
                   /\ DiskAckResp(c[1], c[2], id, st).code = 200) =>
                      \A ev \in Range(copier'.events) :
                          ~(/\ ev.group = c[1]
                            /\ DiskKnown(slaves', c[1]) # {}
                            /\ \A s \in DiskKnown(slaves', c[1]) : Has(ev.acks, s))
        /\ server = "mem" =>
              \A r \in SlaveRequests(world.slaves), id \in AckIds, st \in world.statuses :
                  (MemAck(r, id, st) /\ MemAckResp(r, id).code = 200) =>
                      \A ev \in Range(groupEvents'[r.group]) :
                          ~(/\ groupSlaves'[r.group] # {}
                            /\ \A s \in groupSlaves'[r.group] : Has(ev.ack, s))
      ]_vars

\* C21 (poll only touches the polling slave's registration, part_001 and
\* server.js): a poll by slave c leaves the event log with every ack map, the
\* next-id counter and c's last acknowledged id as they were; afterwards c is
\* registered (in part_001 with lastSeenAt = now); and every other slave of the
\* run is registered afterwards exactly if it was before, with the same record.
C21_PollFrame ==
    [][ /\ server = "disk" =>
              \A c \in world.slaves :
                  DiskPoll(c[1], c[2]) =>
                      /\ UNCHANGED copier
                      /\ Has(slaves', slaveKey(c[1], c[2]))
                      /\ slaves'[slaveKey(c[1], c[2])] =
                             [lastAckId |-> slaveRec(slaveKey(c[1], c[2])).lastAckId,
                              lastSeenAt |-> now]
                      /\ \A d \in world.slaves \ {c} :
                            /\ Has(slaves', slaveKey(d[1], d[2]))
                                   = Has(slaves, slaveKey(d[1], d[2]))
                            /\ slaveRec(slaveKey(d[1], d[2]))'
                                   = slaveRec(slaveKey(d[1], d[2]))
        /\ server = "mem" =>
              \A c \in world.slaves :
                  MemPoll(ClientRequest(c)) =>
                      /\ UNCHANGED <<nextEventId, groupEvents, seenEventKey, slaveLastAck>>
                      /\ c[2] \in groupSlaves'[c[1]]
                      /\ \A d \in world.slaves \ {c} :
                            (d[2] \in groupSlaves'[d[1]]) = (d[2] \in groupSlaves[d[1]])
      ]_vars

\* the events of group h in a log, in log order
GroupLog(log, h) == SelectSeq(log, LAMBDA ev : ev.group = h)

\* C22 (group isolation, part_001 and part_000): a push, poll, ack or
\* registerSlave for group g leaves the events (with their ack maps) of every other
\* group h in the log, the ticket states of h's positions and the records of h's
\* slaves as they were; a poll for g returns only events of g; and an ack in g of
\* an id that only an event of another group has leaves what g's slaves are sent
\* by a poll as it was.
C22_GroupIsolation ==
    [][ /\ server = "disk" =>
              /\ \A e \in world.bodies : \A h \in Groups \ {e.group} :
                    DiskPush(e) => GroupLog(copier'.events, h) = GroupLog(copier.events, h)
              /\ \A c \in world.slaves : \A h \in Groups \ {c[1]} :
                    /\ (DiskPoll(c[1], c[2]) \/ DiskRegister(c[1], c[2])
                        \/ \E id \in AckIds, st \in world.statuses :
                               DiskAck(c[1], c[2], id, st)) =>
                           /\ GroupLog(copier'.events, h) = GroupLog(copier.events, h)
                           /\ \A d \in {x \in world.slaves : x[1] = h} :
                                 /\ Has(slaves', slaveKey(d[1], d[2]))
                                        = Has(slaves, slaveKey(d[1], d[2]))
                                 /\ slaveRec(slaveKey(d[1], d[2]))'
                                        = slaveRec(slaveKey(d[1], d[2]))
                    /\ \A S \in Cursors, L \in Limits :
                          \A ev \in Range(DiskPollOut(c[1], c[2], S, L)) : ev.group = c[1]
        /\ server = "uid" =>
              /\ \A e \in PlainBodies(world.bodies) : \A h \in Groups \ {e.group} :
                    UidPush(e) =>
                        /\ GroupLog(copierEvents', h) = GroupLog(copierEvents, h)
                        /\ \A f \in {x \in PlainBodies(world.bodies) : x.group = h} :
                              /\ Has(copierUidState', ukeyOf(f.group, f.uid))
                                     = Has(copierUidState, ukeyOf(f.group, f.uid))
                              /\ UidState(ukeyOf(f.group, f.uid))'
                                     = UidState(ukeyOf(f.group, f.uid))
              /\ \A c \in world.slaves, id \in AckIds :
                    (/\ UidAck(c[1], c[2], id)
                     /\ \E ev \in Range(copierEvents) :
                           ev.event_id = id /\ ev.group # c[1]) =>
                        \A S \in Cursors, L \in Limits :
                            UidPollOut(c[1], c[2], S, L)' = UidPollOut(c[1], c[2], S, L)
              /\ \A c \in world.slaves, S \in Cursors, L \in Limits :
                    \A ev \in Range(UidPollOut(c[1], c[2], S, L)) : ev.group = c[1]
      ]_vars

\* s is what is left of t when events are dropped from its front only
IsSuffix(s, t) ==
    /\ Len(s) <= Len(t)
    /\ s = SubSeq(t, Len(t) - Len(s) + 1, Len(t))

\* C23 (bounded log size, part_001, server.js and part_000): in every reachable
\* state each group's log holds at most the maximum number of events, and after
\* an accepted push the log is the log before with the new event appended and
\* events dropped from its front only, the lowest ids, whatever their ack maps
\* hold: exactly as many as exceed the cap (in server.js when no event has
\* passed the age limit, which drops from the front as well).
C23_BoundedLog ==
    /\ server = "disk" =>
          /\ \A g \in Groups : Len(GroupLog(copier.events, g)) <= COPIER_KEEP
          /\ \A e \in world.bodies :
                DiskIsNew(e) =>
                    DiskPushed(e).events =
                        LastN(Append(copier.events, DiskNewEvent(e)), COPIER_KEEP)
    /\ server = "mem" =>
          /\ \A g \in Groups : Len(groupEvents[g]) <= MEM_MAX
          /\ \A e \in PlainBodies(world.bodies) :
                MemIsNew(e) =>
                    LET before == Append(groupEvents[e.group], MemNewEvent(e))
                        after == MemPushed(e).groupEvents[e.group]
                    IN  /\ IsSuffix(after, before)
                        /\ Len(after) <= MEM_MAX
                        /\ (\A ev \in Range(before) : ~(ev.ts < now - MEM_MAX_AGE)) =>
                               after = LastN(before, MEM_MAX)
    /\ server = "uid" =>
          /\ \A g \in Groups : Len(GroupLog(copierEvents, g)) <= COPIER_MAX_EVENTS
          /\ \A e \in PlainBodies(world.bodies) :
                UidIsNew(e) =>
                    UidPushed(e).copierEvents =
                        LastN(Append(copierEvents, UidNewEvent(e)), COPIER_MAX_EVENTS)

\* server.js: with the clock at its start, the group's log is full, the event with
\* id 1 has been dropped from it and the later ones are all there
C23_Witness ==
    /\ server = "mem"
    /\ now = 0
    /\ \E g \in Groups :
          /\ Len(groupEvents[g]) = MEM_MAX
          /\ \A i \in 1..MEM_MAX : groupEvents[g][i].id = i + 1

\* C24 (the idempotency index matches the log, server.js): in every reachable
\* state seenEventKey maps a key to an id exactly when an event with that key
\* and id is in a group's log, so a push is never answered as duplicate with the
\* id of an event that has left the log.
C24_IndexMatchesLog ==
    server = "mem" =>
        /\ \A k \in DOMAIN seenEventKey :
              \E g \in Groups : \E ev \in Range(groupEvents[g]) :
                  ev._key = k /\ ev.id = seenEventKey[k]
        /\ \A g \in Groups : \A ev \in Range(groupEvents[g]) :
              Has(seenEventKey, ev._key) /\ seenEventKey[ev._key] = ev.id
        /\ \A e \in PlainBodies(world.bodies) :
              (MemPushResp(e).code = 200 /\ MemPushResp(e).dup) =>
                  \E ev \in Range(groupEvents[e.group]) : ev.id = MemPushResp(e).id

\* the master equity of the last event of group g in a log that carries a positive
\* value, 0 when there is none
LastPositiveEquity(log, g) ==
    LET hit == {i \in 1..Len(log) : log[i].group = g /\ log[i].master_equity > 0}
    IN  IF hit = {} THEN 0
        ELSE log[CHOOSE j \in hit : \A h \in hit : j >= h].master_equity

\* the push bodies an event can have come from: those with its group, type and
\* position identifiers
BodiesOf(ev) ==
    {e \in world.bodies : /\ e.group = ev.group /\ e.type = ev.type
                          /\ e.master_ticket = ev.master_ticket
                          /\ e.open_time = ev.open_time}

\* C25, the pushes of a state: the event an accepted push stores carries the
\* pushed master equity when that is positive and the group's last-known master
\* equity otherwise (0 when there is none); a push answered as duplicate leaves
\* the last-known master equity as it is; and while no event has been removed
\* from the log, the last-known master equity of a group is the master equity of
\* the latest event of the group that carries a positive value
C25_Pushes ==
    server = "disk" =>
        /\ \A e \in world.bodies :
              /\ DiskIsNew(e) =>
                    LET ev == DiskPushed(e).events[Len(DiskPushed(e).events)]
                    IN  /\ ev.id = copier.nextId
                        /\ ev.master_equity =
                               IF e.master_equity > 0 THEN e.master_equity
                               ELSE GetOr(copier.lastMasterEquityByGroup, e.group, 0)
              /\ (DiskPushResp(e).code = 200 /\ DiskPushResp(e).dup) =>
                    DiskPushed(e).lastMasterEquityByGroup = copier.lastMasterEquityByGroup
        /\ DiskWhole =>
              \A g \in Groups :
                  GetOr(copier.lastMasterEquityByGroup, g, 0)
                      = LastPositiveEquity(copier.events, g)

\* C25, the steps: a step that creates no event (a duplicate or refused push, a
\* registerSlave, a poll, an ack with its cleanup, time passing) leaves the
\* last-known master equity of every group as it is, whatever it removes from
\* the log; a step that creates an event stores it with the master equity its
\* push carried when that is positive and with the group's last-known value
\* before the step otherwise, and afterwards the last-known value of the event's
\* group is the stored one when that is positive, while every other last-known
\* value is as before
C25_Steps ==
    server = "disk" =>
        IF copier'.nextId = copier.nextId
        THEN copier'.lastMasterEquityByGroup = copier.lastMasterEquityByGroup
        ELSE LET ev == copier'.events[Len(copier'.events)]
                 was == GetOr(copier.lastMasterEquityByGroup, ev.group, 0)
             IN  /\ copier'.nextId = copier.nextId + 1
                 /\ ev.id = copier.nextId
                 /\ \E e \in BodiesOf(ev) :
                        ev.master_equity = IF e.master_equity > 0 THEN e.master_equity
                                           ELSE was
                 /\ copier'.lastMasterEquityByGroup =
                        IF ev.master_equity > 0
                        THEN Put(copier.lastMasterEquityByGroup, ev.group, ev.master_equity)
                        ELSE copier.lastMasterEquityByGroup

\* C25 (equity fallback, part_001): for every accepted push the stored event's
\* master equity is the pushed value when it is positive and otherwise the
\* group's last-known master equity (0 when there is none); the last-known
\* master equity of a group is at all times the master equity of the most
\* recently accepted event of the group that carried a positive value, also
\* after that event has left the log: it is set by the push that stores such an
\* event and changed by no other step; a push answered as duplicate does not
\* change it.
C25_EquityFallback == [](C25_Pushes) /\ [][C25_Steps]_vars

\* part_001 has stored an event whose push carried no master equity with the
\* group's last-known value, set by an earlier push whose event the ack cleanup
\* or the cap has since removed from the log
C25_Witness ==
    /\ server = "disk"
    /\ ~DiskWhole
    /\ GetOr(copier.lastMasterEquityByGroup, G, 0) = 70
    /\ \E i \in 1..Len(copier.events) :
          /\ copier.events[i].open_time = 2
          /\ copier.events[i].master_equity = 70
    /\ \A i \in 1..Len(copier.events) : copier.events[i].type # "CLOSE"

\* C26 (events are immutable but for their ack map, part_001 and server.js): in
\* every step, an event that is in the log before and after (the same id) has
\* the same group, type, position identifiers and trade attributes; its ack map
\* is the same too, unless the step is an ack of that event by a slave S of its
\* group, and then the map differs in the entry of S only.
C26_EventsImmutable ==
    [][ /\ server = "disk" =>
              \A i \in 1..Len(copier.events), j \in 1..Len(copier'.events) :
                  copier.events[i].id = copier'.events[j].id =>
                      LET ev == copier.events[i]
                          ev2 == copier'.events[j]
                      IN  /\ [ev2 EXCEPT !.acks = EmptyMap] = [ev EXCEPT !.acks = EmptyMap]
                          /\ \/ ev2.acks = ev.acks
                             \/ \E c \in world.slaves, st \in world.statuses :
                                   /\ c[1] = ev.group
                                   /\ DiskAck(c[1], c[2], ev.id, st)
                                   /\ ev2.acks = Put(ev.acks, c[2], [status |-> st])
        /\ server = "mem" =>
              \A g \in Groups :
                  \A i \in 1..Len(groupEvents[g]), j \in 1..Len(groupEvents'[g]) :
                      groupEvents[g][i].id = groupEvents'[g][j].id =>
                          LET ev == groupEvents[g][i]
                              ev2 == groupEvents'[g][j]
                          IN  /\ [ev2 EXCEPT !.ack = EmptyMap] = [ev EXCEPT !.ack = EmptyMap]
                              /\ \/ ev2.ack = ev.ack
                                 \/ \E r \in SlaveRequests(world.slaves),
                                       st \in world.statuses :
                                       /\ r.group = g
                                       /\ MemAck(r, ev.id, st)
                                       /\ ev2.ack = Put(ev.ack, r.slaveId,
                                                        [status |-> st])
      ]_vars

\* server.js holds an event that two slaves of its group have acknowledged
C26_Witness ==
    /\ server = "mem"
    /\ \E g \in Groups : \E ev \in Range(groupEvents[g]) :
          /\ ev.group = g
          /\ \E c, d \in world.slaves :
                c # d /\ c[1] = g /\ d[1] = g /\ Has(ev.ack, c[2]) /\ Has(ev.ack, d[2])

\* what a restart would load from the files
LoadedCopier(f) ==
    readJsonSafe(f.copier,
                 [nextId |-> 1, events |-> <<>>, lastMasterEquityByGroup |-> EmptyMap])
LoadedSlaves(f) == readJsonSafe(f.slaves, EmptyMap)

\* C27 (flush before response, part_001): whenever a push, registerSlave, poll or
\* ack is answered with success, the event-log record on disk (events, next id,
\* last-known equity) and the slave registry on disk are then equal to the ones
\* in memory, so that a restart loads exactly the state the answers reported.
C27_FlushBeforeResponse ==
    server = "disk" =>
        /\ \A e \in world.bodies :
              DiskPushResp(e).code = 200 =>
                  /\ LoadedCopier(DiskPushedFiles(e)) = DiskPushed(e)
                  /\ LoadedSlaves(DiskPushedFiles(e)) = slaves
        /\ \A c \in world.slaves :
              /\ LoadedSlaves(DiskSeenFiles(c[1], c[2])) = DiskSeen(c[1], c[2])
              /\ LoadedCopier(DiskSeenFiles(c[1], c[2])) = copier
        /\ \A c \in world.slaves, id \in AckIds, st \in world.statuses :
              DiskAckResp(c[1], c[2], id, st).code = 200 =>
                  /\ LoadedSlaves(DiskAckedFiles(c[1], c[2], id, st))
                         = DiskAcked(c[1], c[2], id)
                  /\ LoadedCopier(DiskAckedFiles(c[1], c[2], id, st))
                         = DiskAckCleaned(c[1], c[2], id, st)

\* the events of a log that a push of body e would be a duplicate of
SameKey(log, e) ==
    SelectSeq(log, LAMBDA x : x.group = e.group /\ x.type = e.type
                              /\ x.master_ticket = e.master_ticket
                              /\ x.open_time = e.open_time)

\* C28 (retry after a persistence failure, part_001): whenever a push is answered
\* with success, also when it is the repetition of a push whose file write
\* failed, exactly one event exists for its key, it carries the id that was
\* answered, and it is in the file, so that it survives a restart.
C28_RetryAfterWriteFailure ==
    server = "disk" =>
        \A e \in world.bodies :
            DiskPushResp(e).code = 200 =>
                /\ Len(SameKey(DiskPushed(e).events, e)) = 1
                /\ SameKey(DiskPushed(e).events, e)[1].id = DiskPushResp(e).id
                /\ SameKey(LoadedCopier(DiskPushedFiles(e)).events, e)
                       = SameKey(DiskPushed(e).events, e)

\* the ids of all events the server holds, as a sequence
HeldIds ==
    IF server = "disk" THEN [i \in 1..Len(copier.events) |-> copier.events[i].id]
    ELSE [i \in 1..Len(groupEvents[G]) |-> groupEvents[G][i].id]
         \o [i \in 1..Len(groupEvents[GA]) |-> groupEvents[GA][i].id]

\* C29 (serialized mutations, part_001 and server.js): with a push and its retry
\* in flight together and handled in any order among the polls and acks of the
\* slaves, no two events the server holds carry the same id, and the two pushes
\* are answered with one id: they created one event.
C29_SerializedPushes ==
    server \in {"disk", "mem"} =>
        /\ \A i \in 1..Len(HeldIds), j \in 1..Len(HeldIds) :
              i # j => HeldIds[i] # HeldIds[j]
        /\ \A x \in client.made, y \in client.made : x[1] = y[1] => x[2] = y[2]

\* the first half of C29 alone: ids are never shared
C29_IdsDistinct ==
    server \in {"disk", "mem"} =>
        \A i \in 1..Len(HeldIds), j \in 1..Len(HeldIds) :
            i # j => HeldIds[i] # HeldIds[j]

\* C30, first half alone: a request sent with a key that is bound to another slave
\* id is answered 403 and changes nothing
C30_BoundRejected ==
    server = "disk" =>
        \A k \in DOMAIN clients, c \in world.slaves, id \in AckIds, st \in world.statuses :
            (clients[k].boundSlaveId # EmptyStr /\ clients[k].boundSlaveId # c[2]) =>
                /\ DiskKeyResp(clients, k, c[1], c[2]) \in {401, 403}
                /\ DiskKeySeen(k, c[1], c[2])
                       = [clients |-> clients, slaves |-> slaves, files |-> files]
                /\ DiskKeyAcked(k, c[1], c[2], id, st)
                       = [slaves |-> slaves, copier |-> copier, files |-> files]

\* C30 (credential binding, part_001): a registerSlave, poll or ack sent with a key
\* that is bound to another slave id is rejected and changes neither the registry,
\* the log with its ack maps, the clients nor the files; and a key serves one slave
\* id at a time: once a registerSlave, a poll or an ack sent with the key has been
\* accepted, the same request with the key and another slave id is rejected, also
\* when that first request is an ack.
C30_CredentialBinding ==
    server = "disk" =>
        \A k \in DOMAIN clients, c \in world.slaves, id \in AckIds, st \in world.statuses :
            /\ (clients[k].boundSlaveId # EmptyStr /\ clients[k].boundSlaveId # c[2]) =>
                  /\ DiskKeyResp(clients, k, c[1], c[2]) \in {401, 403}
                  /\ DiskKeySeen(k, c[1], c[2])
                         = [clients |-> clients, slaves |-> slaves, files |-> files]
                  /\ DiskKeyAcked(k, c[1], c[2], id, st)
                         = [slaves |-> slaves, copier |-> copier, files |-> files]
            /\ \A d \in Slaves :
                  (d[1] = c[1] /\ d[2] # c[2]
                   /\ DiskKeyResp(clients, k, c[1], c[2]) = 200) =>
                      \* after the accepted registerSlave or poll
                      /\ DiskKeyResp(DiskKeySeen(k, c[1], c[2]).clients, k, d[1], d[2]) = 403
                      \* after the accepted ack, which leaves clients as it is
                      /\ DiskAckResp(c[1], c[2], id, st).code = 200 =>
                             DiskKeyResp(clients, k, d[1], d[2]) = 403

\* the limit strings of the polls: absent, zero, negative, not a number, numbers
\* between 1 and 500, whole and not, and numbers above 500
LimitInputs ==
    { EmptyStr, <<"0">>, <<"-", "1">>, <<"a", "b", "c">>, <<"1">>, <<"2">>,
      <<"2", ".", "5">>, <<"4", "9", "9">>, <<"5", "0", "0">>, <<"5", "0", "1">>,
      <<"9", "9", "9">> }

\* how many events GET /copier/events answers for the limit string q
PollCount(group, slaveId, since, q) ==
    IF server = "disk" THEN Len(DiskPollOutOf(group, slaveId, since, q))
    ELSE IF server = "mem" THEN Len(MemPollOutOf(group, slaveId, since, q))
    ELSE Len(UidPollOutOf(group, slaveId, since, q))

\* C31 (bounded batch, all three servers): whatever the limit string of a poll is,
\* the poll answers at most 500 events, and at most as many as the limit says when
\* that is a number between 1 and 500.
C31_BatchBounded ==
    server \in {"disk", "mem", "uid"} =>
        \A c \in world.slaves, since \in {0, 1}, q \in LimitInputs :
            /\ PollCount(c[1], c[2], since, q) <= MAX_LIMIT
            /\ (~ToNumber(q).nan /\ ToNumber(q).t >= 10 /\ ToNumber(q).t <= 10 * MAX_LIMIT) =>
                   10 * PollCount(c[1], c[2], since, q) <= ToNumber(q).t

\* C32 (atomic file replace, part_001): at every step of a save and of a restart,
\* each of copier_events.json and slaves.json holds what it held before the step
\* or the whole of what is being saved, and never a truncated text.
C32_AtomicReplace ==
    [][server = "disk" =>
          \A f \in {"copier", "slaves"} :
              /\ Len(files'[f]) <= 1
              /\ \/ files'[f] = files[f]
                 \/ files'[f] = writeJsonSafe(DiskMem(f))]_vars

\* a save of the log has stopped in the middle of its temporary file while
\* copier_events.json holds an earlier log, whole
C32_Witness ==
    /\ server = "disk"
    /\ files.copier_tmp # <<>>
    /\ Len(files.copier_tmp) > 1
    /\ files.copier # <<>>
    /\ Len(files.copier) = 1
    /\ files.copier[1] # copier

============================================================================
